---- MODULE Spec2Model ----
(***************************************************************************)
(* Product-name matching of src/dags/data_processing/mapping_product_name  *)
(* .py: the embedding cache and its pickle file, the sequential base-table *)
(* embedding, the similarity search, the chat-completion verifier, the     *)
(* per-row retry loop and the ThreadPoolExecutor that runs the rows.       *)
(*                                                                         *)
(* Text is modelled as a tuple of characters, so that str.strip() and      *)
(* string equality act on characters.  Positions are 1-based here and      *)
(* 0-based in the source.  A cosine similarity is kept exactly, as the     *)
(* signed square num/den of dot/(|b||q|), or as NaN (0/0 in numpy).        *)
(***************************************************************************)
EXTENDS Integers, Sequences, FiniteSets, TLC

\* ------------------------------------------------------------------ bounds
\* Number of rows of the query table.
MaxQueryRows == 2
\* Longest text the verifier is exercised on (specification VSpec).
MaxStrLen == 2
\* Longest list of texts handed to get_embeddings_with_caching (GSpec).
MaxTexts == 3
\* Largest batch_size handed to get_embeddings_with_caching (GSpec).
MaxBatchSize == 2

\* ------------------------------------------------------- program constants
\* for attempt in range(3)
MaxAttempts == 3
\* ThreadPoolExecutor(max_workers=5)
max_workers == 5
\* find_best_match_in_context(..., top_n=3)
top_n == 3
\* pl.col("similarity") >= 0.8, in hundredths
similarity_threshold == 80

\* find_similar_gemini.py: (diff < 1.5) & (diff > 0.5), in tenths
diff_upper == 15
diff_lower == 5
\* find_similar_qwen.py: pl.col("similarity") >= 0.82, in hundredths
qwen_similarity_threshold == 82

\* -------------------------------------------------------------------- text
Whitespace == {" "}

RECURSIVE lstrip(_)
lstrip(s) == IF s # <<>> /\ Head(s) \in Whitespace THEN lstrip(Tail(s)) ELSE s

RECURSIVE rstrip(_)
rstrip(s) ==
  IF s # <<>> /\ s[Len(s)] \in Whitespace
  THEN rstrip(SubSeq(s, 1, Len(s) - 1))
  ELSE s

\* str.strip(): leading and trailing whitespace removed, inner kept.
strip(s) == rstrip(lstrip(s))

\* Python truthiness of a str: "not text" holds of the empty string only.
Falsy(s) == s = <<>>

NoneText == <<"N", "o", "n", "e">>
MatchingFailed ==
  <<"M", "a", "t", "c", "h", "i", "n", "g", " ", "F", "a", "i", "l", "e", "d">>

InList(x, list) == \E i \in 1..Len(list) : list[i] = x

\* list.index(x): the first position holding x.
IndexOf(x, list) == CHOOSE i \in 1..Len(list) : list[i] = x /\ \A j \in 1..(i - 1) : list[j] # x

\* ----------------------------------------------------------------- vectors
RECURSIVE Dot(_, _)
Dot(a, b) == IF a = <<>> THEN 0 ELSE Head(a) * Head(b) + Dot(Tail(a), Tail(b))

NormSq(a) == Dot(a, a)

RECURSIVE GCD(_, _)
GCD(a, b) == IF b = 0 THEN a ELSE GCD(b, a % b)

Abs(x) == IF x < 0 THEN -x ELSE x

NaN == [nan |-> TRUE, num |-> 0, den |-> 0]
Sim(num, den) ==
  IF num = 0 THEN [nan |-> FALSE, num |-> 0, den |-> 1]
  ELSE LET g == GCD(Abs(num), den) IN [nan |-> FALSE, num |-> num \div g, den |-> den \div g]

\* The literal 0.0 of the "Matching Failed" record.
ZeroSim == Sim(0, 1)

\* np.dot(b, q) / (norm(b) * norm(q)) for one row b of the matrix: 0/0 is nan
\* (a RuntimeWarning, not an exception).
CosineSimilarity(b, q) ==
  LET d == Dot(b, q)
      n == NormSq(b) * NormSq(q)
  IN  IF n = 0 THEN NaN ELSE Sim((IF d < 0 THEN -1 ELSE 1) * d * d, n)

\* Order of two similarities as numpy sorts them: nan after every number.
SimLess(x, y) ==
  IF x.nan THEN FALSE
  ELSE IF y.nan THEN TRUE
  ELSE x.num * y.den < y.num * x.den

\* pl.col("similarity") >= t/100.  polars orders floats totally, nan equal
\* to nan and greater than every number, so nan passes the comparison.
SimAtLeast(x, t) ==
  \/ x.nan
  \/ /\ x.num >= 0
     /\ x.num * 100 * 100 >= t * t * x.den

\* ------------------------------------------------------------------ inputs
nA == <<"A">>
nB == <<"B">>
na == <<"a">>
nb == <<"b">>

\* The vector text-embedding-3-small answers for a text (a fixed function:
\* the provider is deterministic; whether the call raises is not).
Embedding(text) ==
  CASE text = nA -> <<1, 0>>
    [] text = nB -> <<0, 1>>
    [] text = na -> <<1, 1>>
    [] OTHER    -> <<1, 0>>

\* Watsons table (df_base) and Line Shopping rows (df_query).
BaseTables ==
  { <<>>,
    << [product_name |-> nA, sale_price |-> 10], [product_name |-> nB, sale_price |-> 20] >>,
    << [product_name |-> <<>>, sale_price |-> 5] >> }

QueryPool ==
  << [product_name |-> na, sale_price |-> 9],
     [product_name |-> na, sale_price |-> 7],
     [product_name |-> nb, sale_price |-> 12],
     [product_name |-> <<>>, sale_price |-> 5],
     [product_name |-> nA, sale_price |-> 8] >>

QueryTables ==
  { [i \in 1..MaxQueryRows |-> QueryPool[((i + k - 1) % Len(QueryPool)) + 1]] :
      k \in 0..(Len(QueryPool) - 1) }

\* A dict as a function from its keys.
EmptyDict == [t \in {} |-> <<>>]
DictPut(d, k, v) == [t \in (DOMAIN d) \cup {k} |-> IF t = k THEN v ELSE d[t]]

\* embeddings_cache.pkl: absent, a complete pickle of a dict, a truncated or
\* half-written pickle, or bytes of two writers mixed.
Absent == [kind |-> "absent", data |-> EmptyDict]
Pickled(d) == [kind |-> "ok", data |-> d]
Partial == [kind |-> "partial", data |-> EmptyDict]
Corrupt == [kind |-> "corrupt", data |-> EmptyDict]
\* A complete pickle of a dict older than the one in memory.
Stale == [kind |-> "stale", data |-> EmptyDict]

\* What the file may hold when the script starts: nothing, or a dict left by
\* an earlier writer, where [] marks a failed embedding.
InitialFiles ==
  { Absent,
    Pickled(DictPut(EmptyDict, na, <<>>)),
    Pickled(DictPut(EmptyDict, na, <<0, 0>>)),
    Pickled(DictPut(EmptyDict, nA, <<>>)),
    Pickled(DictPut(DictPut(DictPut(EmptyDict, nA, <<>>), nB, <<>>), na, <<>>)),
    Pickled(DictPut(DictPut(DictPut(EmptyDict, nA, <<1, 0>>), nB, <<0, 1>>), na, <<1, 1>>)),
    Corrupt }

\* The text the model may answer to the verification prompt.
RawResponses == { nA, <<"A", " ">>, nB, na, NoneText }

\* ------------------------------------------------------------------- state
VARIABLES
  df_base,            \* the base table
  df_query,           \* the query table
  embedding_cache,    \* the in-memory dict
  cache_file,         \* embeddings_cache.pkl
  phase,              \* main thread: load, base, pool, done, aborted
  main_pc,            \* main thread inside embedding_from_string
  base_embeddings,    \* the list built by the comprehension at line 133
  base_embeddings_np, \* np.array(base_embeddings)
  pc,                 \* per query row: position of its future
  attempt,            \* per row: the loop variable of range(3)
  locals,             \* per row: match_indices, similarity_scores, verifier answer
  ret,                \* per row: what process_product_row returned
  results_list,       \* the list the main thread appends to
  hist,               \* per row: counts of raised attempts, sleeps, verifier calls and errors
  filtered_df_results, \* the rows of df_results kept by the filter of line 311
  v_in,               \* verifier inputs (specification VSpec)
  v_out,              \* verifier output (specification VSpec)
  texts,              \* get_embeddings_with_caching: the argument texts (specification GSpec)
  batch_size,         \* get_embeddings_with_caching: the argument batch_size
  texts_to_embed,     \* get_embeddings_with_caching: the sorted list of line 38
  batch_start,        \* get_embeddings_with_caching: the loop variable i of line 48
  cache_updated,      \* get_embeddings_with_caching: the flag of line 46
  provider_pc,        \* get_embeddings_with_caching: position inside the function
  batch_log,          \* the batches requested so far, each with whether its call raised
  token_pc,           \* get_watsons_token: position inside the function
  server,             \* get_watsons_token: the BrowserMob proxy server process
  user_data_dir_for_cleanup, \* get_watsons_token: the variable, and the directory it names
  attempt_no,         \* get_watsons_token: the loop variable attempt of line 31
  authorization_token, \* get_watsons_token: the token found so far
  current_driver,     \* get_watsons_token: the WebDriver of this attempt, 0 for None
  final_driver_to_quit, \* get_watsons_token: the WebDriver left to the outer finally
  quits,              \* how often quit() was called on the WebDriver of each attempt
  har_log,            \* what each attempt so far ended with
  token_exit,         \* get_watsons_token: how the function is leaving
  task_state,         \* web_scraping_dag: the state of each task instance of the run
  WATSONS_BEARER_TOKEN, \* the Airflow Variable
  scraper,            \* run_watson_scraper or run_line_shopping_scraper
  scraper_pc,         \* the scraper task: position inside the function
  query_no,           \* the scraper task: index of query in search_queries
  total_pages,        \* the scraper task: total_pages of the query at hand
  page_num,           \* the scraper task: the loop variable page_num
  requested,          \* the calls of the fetch function so far, as <<query, page>>
  first_failed        \* the queries whose first page gave no data

vars ==
  << df_base, df_query, embedding_cache, cache_file, phase, main_pc, base_embeddings,
     base_embeddings_np, pc, attempt, locals, ret, results_list, hist, filtered_df_results,
     v_in, v_out, texts, batch_size, texts_to_embed, batch_start, cache_updated, provider_pc,
     batch_log, token_pc, server, user_data_dir_for_cleanup, attempt_no, authorization_token,
     current_driver, final_driver_to_quit, quits, har_log, token_exit, task_state,
     WATSONS_BEARER_TOKEN, scraper, scraper_pc, query_no, total_pages, page_num, requested,
     first_failed >>

Rows == DOMAIN df_query

NoLocals ==
  [match_indices |-> <<>>, similarity_scores |-> <<>>, matched_product_names |-> <<>>,
   verified_product_name |-> <<>>, is_match |-> FALSE]

NoReturn ==
  [branch |-> "running", query_name |-> <<>>, matched_name |-> <<>>, price_from_line |-> 0,
   price_from_watson |-> 0, similarity |-> ZeroSim, verified_match |-> FALSE]

NoHist ==
  [raises |-> 0, sleeps |-> 0, verifier_calls |-> 0, verifier_errors |-> 0, remote_errors |-> 0]

Unbuilt == [kind |-> "unbuilt", rows |-> <<>>, dim |-> 0]

NoVerifierInput == [base_product |-> <<>>, product_list_to_compare |-> <<>>, raw |-> <<>>]
NoVerifierOutput == [called |-> FALSE, raised |-> FALSE, name |-> <<>>, is_match |-> FALSE]

tokenVars ==
  << token_pc, server, user_data_dir_for_cleanup, attempt_no, authorization_token,
     current_driver, final_driver_to_quit, quits, har_log, token_exit >>

dagVars == << task_state, WATSONS_BEARER_TOKEN >>

scraperVars ==
  << scraper, scraper_pc, query_no, total_pages, page_num, requested, first_failed >>

providerVars ==
  << texts, batch_size, texts_to_embed, batch_start, cache_updated, provider_pc, batch_log,
     tokenVars, dagVars, scraperVars >>

\* selenium_browser_proxy.py line 23
max_retries == 3
\* web_scraping_dag.py lines 37 and 55: five search queries
NumQueries == 5

NoToken == "None"

\* get_watsons_token is not running.
TokenIdle ==
  /\ token_pc = "idle"
  /\ server = "unstarted"
  /\ user_data_dir_for_cleanup = "None"
  /\ attempt_no = 0
  /\ authorization_token = NoToken
  /\ current_driver = 0
  /\ final_driver_to_quit = 0
  /\ quits = [d \in 1..max_retries |-> 0]
  /\ har_log = <<>>
  /\ token_exit = "none"

Tasks ==
  { "get_and_update_token", "scrape_watsons_data", "scrape_line_shopping_data",
    "process_pre_landing_watson_data", "process_pre_landing_line_data",
    "write_compare_price_report" }

\* No DAG run.
DagIdle ==
  /\ task_state = [t \in Tasks |-> "none"]
  /\ WATSONS_BEARER_TOKEN = "unset"

\* No scraper task.
ScraperIdle ==
  /\ scraper = "none"
  /\ scraper_pc = "idle"
  /\ query_no = 0
  /\ total_pages = 0
  /\ page_num = 0
  /\ requested = <<>>
  /\ first_failed = {}

\* get_embeddings_with_caching is not part of the pipeline of
\* mapping_product_name.py: its variables rest while the pipeline runs.
ProviderIdle ==
  /\ texts = <<>>
  /\ batch_size = 1
  /\ texts_to_embed = <<>>
  /\ batch_start = 0
  /\ cache_updated = FALSE
  /\ provider_pc = "idle"
  /\ batch_log = <<>>
  /\ TokenIdle
  /\ DagIdle
  /\ ScraperIdle

Init ==
  /\ df_base \in BaseTables
  /\ df_query \in QueryTables
  /\ cache_file \in InitialFiles
  /\ embedding_cache = EmptyDict
  /\ phase = "load"
  /\ main_pc = "lookup"
  /\ base_embeddings = <<>>
  /\ base_embeddings_np = Unbuilt
  /\ pc = [r \in 1..MaxQueryRows |-> "pending"]
  /\ attempt = [r \in 1..MaxQueryRows |-> 0]
  /\ locals = [r \in 1..MaxQueryRows |-> NoLocals]
  /\ ret = [r \in 1..MaxQueryRows |-> NoReturn]
  /\ results_list = <<>>
  /\ hist = [r \in 1..MaxQueryRows |-> NoHist]
  /\ filtered_df_results = <<>>
  /\ v_in = NoVerifierInput
  /\ v_out = NoVerifierOutput
  /\ ProviderIdle

workerVars == << pc, attempt, locals, ret, hist >>
tableVars == << df_base, df_query >>
verifierVars == << v_in, v_out >>

\* ------------------------------------------------- cache load (lines 100-105)
\* open() of a missing file raises FileNotFoundError, which is caught; any
\* other failure of pickle.load is not caught and ends the script.
LoadCache ==
  /\ phase = "load"
  /\ IF cache_file.kind = "absent"
     THEN embedding_cache' = EmptyDict /\ phase' = "base"
     ELSE IF cache_file.kind = "ok"
     THEN embedding_cache' = cache_file.data /\ phase' = "base"
     ELSE embedding_cache' = embedding_cache /\ phase' = "aborted"
  /\ UNCHANGED << tableVars, cache_file, main_pc, base_embeddings, base_embeddings_np,
                  workerVars, results_list, filtered_df_results,
                  verifierVars, providerVars >>

\* ------------------------------- base embeddings, main thread (lines 129-136)
base_names == [i \in DOMAIN df_base |-> df_base[i].product_name]

BaseName == base_names[Len(base_embeddings) + 1]

InBase == phase = "base" /\ Len(base_embeddings) < Len(df_base)

\* A lookup that never finds its key.
CacheHitNever(cache, string) == FALSE

\* Line 119: string not in embedding_cache.keys().
CacheHit(cache, string) == string \in DOMAIN cache

\* embedding_from_string(name), line 119: a hit returns the cached value; a
\* miss calls generate_embeddings, which returns [] for a falsy text without
\* calling the provider.
BaseLookup ==
  /\ InBase
  /\ main_pc = "lookup"
  /\ IF CacheHit(embedding_cache, BaseName)
     THEN /\ base_embeddings' = Append(base_embeddings, embedding_cache[BaseName])
          /\ UNCHANGED << embedding_cache, main_pc >>
     ELSE IF Falsy(BaseName)
     THEN /\ embedding_cache' = DictPut(embedding_cache, BaseName, <<>>)
          /\ main_pc' = "file_open"
          /\ UNCHANGED base_embeddings
     ELSE /\ main_pc' = "embed_call"
          /\ UNCHANGED << embedding_cache, base_embeddings >>
  /\ UNCHANGED << tableVars, cache_file, phase, base_embeddings_np, workerVars,
                  results_list, filtered_df_results,
                  verifierVars, providerVars >>

\* client.embeddings.create returns: line 120 stores the vector.
BaseEmbedReturn ==
  /\ InBase
  /\ main_pc = "embed_call"
  /\ embedding_cache' = DictPut(embedding_cache, BaseName, Embedding(BaseName))
  /\ main_pc' = "file_open"
  /\ UNCHANGED << tableVars, cache_file, phase, base_embeddings, base_embeddings_np,
                  workerVars, results_list, filtered_df_results,
                  verifierVars, providerVars >>

\* client.embeddings.create raises: nothing catches it at module level.
BaseEmbedRaise ==
  /\ InBase
  /\ main_pc = "embed_call"
  /\ phase' = "aborted"
  /\ UNCHANGED << tableVars, embedding_cache, cache_file, main_pc, base_embeddings,
                  base_embeddings_np, workerVars, results_list, filtered_df_results,
                  verifierVars, providerVars >>

\* open(embedding_cache_path, "wb") truncates the file (line 121).
BaseFileOpen ==
  /\ InBase
  /\ main_pc = "file_open"
  /\ cache_file' = Partial
  /\ main_pc' = "file_dump"
  /\ UNCHANGED << tableVars, embedding_cache, phase, base_embeddings, base_embeddings_np,
                  workerVars, results_list, filtered_df_results,
                  verifierVars, providerVars >>

\* pickle.dump of the whole dict and close (line 122), then line 123.
BaseFileDump ==
  /\ InBase
  /\ main_pc = "file_dump"
  /\ cache_file' = Pickled(embedding_cache)
  /\ base_embeddings' = Append(base_embeddings, embedding_cache[BaseName])
  /\ main_pc' = "lookup"
  /\ UNCHANGED << tableVars, embedding_cache, phase, base_embeddings_np, workerVars,
                  results_list, filtered_df_results,
                  verifierVars, providerVars >>

\* np.array(list of lists): no rows gives shape (0,); rows of one length d
\* give shape (n, d), d = 0 included; rows of different lengths give an
\* object array of shape (n,) on numpy < 1.24 and raise ValueError after.
Ragged(list) == \E i, j \in 1..Len(list) : Len(list[i]) # Len(list[j])

np_array(list) ==
  IF list = <<>> THEN [kind |-> "empty", rows |-> <<>>, dim |-> 0]
  ELSE IF Ragged(list) THEN [kind |-> "object", rows |-> list, dim |-> 0]
  ELSE [kind |-> "matrix", rows |-> list, dim |-> Len(list[1])]

\* A pool that is started while base names are still to be embedded.
StartPoolEarly == phase = "base"

\* The comprehension of line 133 has run over every base name.
StartPoolGuard == phase = "base" /\ Len(base_embeddings) = Len(df_base)

\* Line 135, then the executor is created and every row submitted (296-298).
BuildIndex ==
  /\ StartPoolGuard
  /\ main_pc = "lookup"
  /\ base_embeddings_np' = np_array(base_embeddings)
  /\ phase' = "pool"
  /\ UNCHANGED << tableVars, embedding_cache, cache_file, main_pc, base_embeddings,
                  workerVars, results_list, filtered_df_results,
                  verifierVars, providerVars >>

\* np.array raising on ragged rows (numpy >= 1.24).
BuildIndexRaise ==
  /\ StartPoolGuard
  /\ main_pc = "lookup"
  /\ Ragged(base_embeddings)
  /\ phase' = "aborted"
  /\ UNCHANGED << tableVars, embedding_cache, cache_file, main_pc, base_embeddings,
                  base_embeddings_np, workerVars, results_list, filtered_df_results,
                  verifierVars, providerVars >>

\* ------------------------------------ similarity search (lines 140-165)
Orderings(n) == { p \in [1..n -> 1..n] : \A i, j \in 1..n : i # j => p[i] # p[j] }

\* np.argsort(similarities): ascending, nan last; the default kind is not
\* stable, so equal values come in any order.
argsort(similarities) ==
  LET n == Len(similarities)
  IN  { p \in Orderings(n) :
          \A i \in 1..(n - 1) : ~SimLess(similarities[p[i + 1]], similarities[p[i]]) }

Min(a, b) == IF a < b THEN a ELSE b

\* [:top_n] of the ascending order, without the reversal.
TakeWithoutReverse(p, k) == [i \in 1..Min(k, Len(p)) |-> p[i]]

\* [::-1][:top_n]
ReverseTake(p, k) == [i \in 1..Min(k, Len(p)) |-> p[Len(p) + 1 - i]]

\* np.dot and np.linalg.norm(axis=1) need a 2-d matrix whose row length is
\* the length of the query vector; anything else raises.
find_best_match_raises(query_embedding, context_embeddings_np) ==
  ~(/\ context_embeddings_np.kind = "matrix"
    /\ context_embeddings_np.dim = Len(query_embedding))

find_best_match_in_context(query_embedding, context_embeddings_np) ==
  LET rows == context_embeddings_np.rows
      similarities == [i \in 1..Len(rows) |-> CosineSimilarity(rows[i], query_embedding)]
  IN  { [match_indices |-> ReverseTake(p, top_n),
         similarity_scores |->
           [i \in 1..Min(top_n, Len(p)) |-> similarities[ReverseTake(p, top_n)[i]]]] :
        p \in argsort(similarities) }

\* ------------------------------------------- verifier (lines 167-202)
Lower(c) == IF c = "A" THEN "a" ELSE c
LowerText(t) == [i \in DOMAIN t |-> Lower(t[i])]

\* A verifier that compares without regard to case.
verify_response_ignoring_case(raw, product_list_to_compare) ==
  LET content == strip(raw)
      hits == { i \in 1..Len(product_list_to_compare) :
                  LowerText(product_list_to_compare[i]) = LowerText(content) }
  IN  IF content # NoneText /\ hits # {}
      THEN [name |-> product_list_to_compare[CHOOSE i \in hits : \A j \in hits : i <= j],
            is_match |-> TRUE]
      ELSE [name |-> <<>>, is_match |-> FALSE]

\* Lines 195-199: the answer is stripped, then compared with the candidates.
verify_response(raw, product_list_to_compare) ==
  LET content == strip(raw)
  IN  IF content # NoneText /\ InList(content, product_list_to_compare)
      THEN [name |-> content, is_match |-> TRUE]
      ELSE [name |-> <<>>, is_match |-> FALSE]

\* Lines 200-202: any exception of the chat call is caught inside the verifier.
verify_exception == [name |-> <<>>, is_match |-> FALSE]

\* ------------------------------------ process_product_row (lines 207-287)
QueryName(r) == df_query[r].product_name

\* A record that takes price and score from the top candidate.
VerifiedRecordTopMatch(r, l, v) ==
  [branch |-> "Verified",
   query_name |-> QueryName(r),
   matched_name |-> v.name,
   price_from_line |-> df_query[r].sale_price,
   price_from_watson |-> df_base[l.match_indices[1]].sale_price,
   similarity |-> l.similarity_scores[1],
   verified_match |-> TRUE]

\* Lines 250-263.
VerifiedRecord(r, l, v) ==
  LET verified_product_index_in_matches == IndexOf(v.name, l.matched_product_names)
      original_match_index == l.match_indices[verified_product_index_in_matches]
  IN  [branch |-> "Verified",
       query_name |-> QueryName(r),
       matched_name |-> v.name,
       price_from_line |-> df_query[r].sale_price,
       price_from_watson |-> df_base[original_match_index].sale_price,
       similarity |-> l.similarity_scores[verified_product_index_in_matches],
       verified_match |-> TRUE]

\* A best guess that is flagged as verified.
BestGuessRecordVerified(r, l) ==
  LET top_match_info == df_base[l.match_indices[1]]
  IN  [branch |-> "UnverifiedBestGuess",
       query_name |-> QueryName(r),
       matched_name |-> top_match_info.product_name,
       price_from_line |-> df_query[r].sale_price,
       price_from_watson |-> top_match_info.sale_price,
       similarity |-> l.similarity_scores[1],
       verified_match |-> TRUE]

\* A best guess taken from the last of the candidates.
BestGuessRecordLastCandidate(r, l) ==
  LET last_match_info == df_base[l.match_indices[Len(l.match_indices)]]
  IN  [branch |-> "UnverifiedBestGuess",
       query_name |-> QueryName(r),
       matched_name |-> last_match_info.product_name,
       price_from_line |-> df_query[r].sale_price,
       price_from_watson |-> last_match_info.sale_price,
       similarity |-> l.similarity_scores[Len(l.match_indices)],
       verified_match |-> FALSE]

\* Lines 264-273.
BestGuessRecord(r, l) ==
  LET top_match_info == df_base[l.match_indices[1]]
  IN  [branch |-> "UnverifiedBestGuess",
       query_name |-> QueryName(r),
       matched_name |-> top_match_info.product_name,
       price_from_line |-> df_query[r].sale_price,
       price_from_watson |-> top_match_info.sale_price,
       similarity |-> l.similarity_scores[1],
       verified_match |-> FALSE]

\* Lines 280-287.
FailedRecord(r) ==
  [branch |-> "Failed",
   query_name |-> QueryName(r),
   matched_name |-> MatchingFailed,
   price_from_line |-> df_query[r].sale_price,
   price_from_watson |-> 0,
   similarity |-> ZeroSim,
   verified_match |-> FALSE]

\* Line 238.
NoneRecord == [NoReturn EXCEPT !.branch = "None"]

\* What escapes the row when "except Exception" does not take the exception.
EscapedRecord == [NoReturn EXCEPT !.branch = "Escaped"]

\* An except clause that lets the exception through.
ExceptCatchesNothing == FALSE

\* Line 274: except Exception takes every exception of the attempt.
ExceptCatches == TRUE

\* A loop that runs one attempt more.
LastAttemptOffByOne(a) == a >= MaxAttempts

\* Line 240: range(3) is exhausted after the attempt numbered 2.
LastAttempt(a) == a >= MaxAttempts - 1

\* Lines 274-277 and 280: the attempt raised.
\* remote is 1 when the exception came from the provider or from the race on
\* the dict, 0 when the data of the row raised it.
\* others gives the positions of the other rows after the step.
ExceptClauseAmong(others, r, remote) ==
  IF ~ExceptCatches
  THEN /\ pc' = [others EXCEPT ![r] = "returned"]
       /\ ret' = [ret EXCEPT ![r] = EscapedRecord]
       /\ hist' = [hist EXCEPT ![r].raises = @ + 1, ![r].remote_errors = @ + remote]
       /\ UNCHANGED attempt
  ELSE IF LastAttempt(attempt[r])
  THEN /\ pc' = [others EXCEPT ![r] = "returned"]
       /\ ret' = [ret EXCEPT ![r] = FailedRecord(r)]
       /\ hist' = [hist EXCEPT ![r].raises = @ + 1, ![r].remote_errors = @ + remote]
       /\ UNCHANGED attempt
  ELSE /\ pc' = [others EXCEPT ![r] = "lookup"]
       /\ attempt' = [attempt EXCEPT ![r] = @ + 1]
       /\ hist' = [hist EXCEPT ![r].raises = @ + 1, ![r].sleeps = @ + 1,
                                ![r].remote_errors = @ + remote]
       /\ UNCHANGED ret

ExceptClause(r, remote) == ExceptClauseAmong(pc, r, remote)

Running(r) ==
  pc[r] \in {"lookup", "embed_call", "file_open", "file_dump", "file_dump_late", "verify_call"}

\* An executor that starts a thread for every work item.
CanStartUnbounded(r) ==
  /\ phase = "pool"
  /\ pc[r] = "pending"
  /\ \A q \in Rows : q < r => pc[q] # "pending"

\* A worker thread takes the next work item of the executor's FIFO queue.
CanStart(r) ==
  /\ phase = "pool"
  /\ pc[r] = "pending"
  /\ \A q \in Rows : q < r => pc[q] # "pending"
  /\ Cardinality({q \in Rows : Running(q)}) < max_workers

\* Lines 234-240.
StartRow(r) ==
  /\ CanStart(r)
  /\ IF Falsy(QueryName(r))
     THEN /\ pc' = [pc EXCEPT ![r] = "returned"]
          /\ ret' = [ret EXCEPT ![r] = NoneRecord]
     ELSE /\ pc' = [pc EXCEPT ![r] = "lookup"]
          /\ UNCHANGED ret
  /\ UNCHANGED << tableVars, embedding_cache, cache_file, phase, main_pc, base_embeddings,
                  base_embeddings_np, attempt, locals, hist, results_list, filtered_df_results,
                  verifierVars, providerVars >>

\* Lines 243-248 once the query embedding is at hand: the search, the rows of
\* the candidates and the call of the verifier (line 178 answers an empty
\* list without a remote call, and line 265 then raises IndexError).
MatchStep(r) ==
  LET query_embedding == embedding_cache[QueryName(r)]
  IN  IF find_best_match_raises(query_embedding, base_embeddings_np)
      THEN ExceptClause(r, 0) /\ UNCHANGED locals
      ELSE \E o \in find_best_match_in_context(query_embedding, base_embeddings_np) :
             LET names == [i \in DOMAIN o.match_indices |->
                             df_base[o.match_indices[i]].product_name]
                 l == [NoLocals EXCEPT !.match_indices = o.match_indices,
                                       !.similarity_scores = o.similarity_scores,
                                       !.matched_product_names = names]
             IN  /\ locals' = [locals EXCEPT ![r] = l]
                 /\ IF names = <<>>
                    THEN ExceptClause(r, 0)
                    ELSE /\ pc' = [pc EXCEPT ![r] = "verify_call"]
                         /\ hist' = [hist EXCEPT ![r].verifier_calls = @ + 1]
                         /\ UNCHANGED << attempt, ret >>

\* embedding_from_string(query_name), line 119, in a worker.
Lookup(r) ==
  /\ pc[r] = "lookup"
  /\ IF CacheHit(embedding_cache, QueryName(r))
     THEN MatchStep(r)
     ELSE /\ pc' = [pc EXCEPT ![r] = "embed_call"]
          /\ UNCHANGED << attempt, locals, ret, hist >>
  /\ UNCHANGED << tableVars, embedding_cache, cache_file, phase, main_pc, base_embeddings,
                  base_embeddings_np, results_list, filtered_df_results,
                  verifierVars, providerVars >>

\* Line 120 in a worker: the provider answered and the dict is written.
\* A worker inside the with block of lines 121-122 whose pickle.dump has
\* already walked the dict, but whose file is not closed yet, is left with
\* bytes that lack a key inserted now (late).
EmbedReturn(r) ==
  /\ pc[r] = "embed_call"
  /\ embedding_cache' = DictPut(embedding_cache, QueryName(r), Embedding(QueryName(r)))
  /\ \E late \in SUBSET { q \in Rows : pc[q] = "file_dump" } :
       /\ late # {} => QueryName(r) \notin DOMAIN embedding_cache
       /\ pc' = [q \in Rows |-> IF q = r THEN "file_open"
                                ELSE IF q \in late THEN "file_dump_late"
                                ELSE pc[q]]
  /\ UNCHANGED << tableVars, cache_file, phase, main_pc, base_embeddings,
                  base_embeddings_np, attempt, locals, ret, hist, results_list, filtered_df_results,
                  verifierVars, providerVars >>

\* Line 120 in a worker: the provider call raised.
EmbedRaise(r) ==
  /\ pc[r] = "embed_call"
  /\ ExceptClause(r, 1)
  /\ UNCHANGED << tableVars, embedding_cache, cache_file, phase, main_pc, base_embeddings,
                  base_embeddings_np, locals, results_list, filtered_df_results,
                  verifierVars, providerVars >>

\* Line 121 in a worker: open(..., "wb") truncates the file.
FileOpen(r) ==
  /\ pc[r] = "file_open"
  /\ cache_file' = Partial
  /\ pc' = [pc EXCEPT ![r] = "file_dump"]
  /\ UNCHANGED << tableVars, embedding_cache, phase, main_pc, base_embeddings,
                  base_embeddings_np, attempt, locals, ret, hist, results_list, filtered_df_results,
                  verifierVars, providerVars >>

OtherWriterOpen(r) == \E q \in Rows : q # r /\ pc[q] \in {"file_dump", "file_dump_late"}
OtherWriterInserting(r, q) == q # r /\ pc[q] = "embed_call"

\* Line 122 in a worker: the dict as it is now is pickled and the file
\* closed.  Nothing serialises the writers, each of which writes from offset
\* 0 of the file: the open() of another worker that is still inside its with
\* block may have truncated the file after the first bytes of this dump, and
\* the file is complete again only when that worker has written.
FileDump(r) ==
  /\ pc[r] = "file_dump"
  /\ \/ cache_file' = Pickled(embedding_cache)
     \/ OtherWriterOpen(r) /\ cache_file' = Partial
  /\ MatchStep(r)
  /\ UNCHANGED << tableVars, embedding_cache, phase, main_pc, base_embeddings,
                  base_embeddings_np, results_list, filtered_df_results,
                  verifierVars, providerVars >>

\* Line 122 in a worker: another worker q, whose provider call returns,
\* inserts a new key into the dict (line 120) while it is being pickled; the
\* dump raises RuntimeError (dictionary changed size during iteration) and
\* the file stays half-written.
FileDumpRaise(r) ==
  /\ pc[r] = "file_dump"
  /\ \E q \in Rows :
       /\ OtherWriterInserting(r, q)
       /\ QueryName(q) \notin DOMAIN embedding_cache
       /\ embedding_cache' = DictPut(embedding_cache, QueryName(q), Embedding(QueryName(q)))
       /\ ExceptClauseAmong([pc EXCEPT ![q] = "file_open"], r, 1)
  /\ cache_file' = Partial
  /\ UNCHANGED << tableVars, phase, main_pc, base_embeddings,
                  base_embeddings_np, locals, results_list, filtered_df_results,
                  verifierVars, providerVars >>

\* Line 122, the end of the with block in a worker whose dump is late: the
\* buffered bytes of the older dict are flushed at this worker's offset.
\* Into a file another worker has completed since, they overwrite part of
\* the newer pickle; into a file nobody else holds open they leave the
\* older dict.
FileCloseLate(r) ==
  /\ pc[r] = "file_dump_late"
  /\ cache_file' = (IF cache_file.kind # "partial" THEN Corrupt
                    ELSE IF OtherWriterOpen(r) THEN Partial
                    ELSE Stale)
  /\ MatchStep(r)
  /\ UNCHANGED << tableVars, embedding_cache, phase, main_pc, base_embeddings,
                  base_embeddings_np, results_list, filtered_df_results,
                  verifierVars, providerVars >>

\* A row that returns nothing when the verifier gave no match.
AssembleMatchOnly(r, l, v) == IF v.is_match THEN VerifiedRecord(r, l, v) ELSE NoneRecord

\* Lines 250-273.
Assemble(r, l, v) == IF v.is_match THEN VerifiedRecord(r, l, v) ELSE BestGuessRecord(r, l)

Answered(r, v) ==
  LET l == [locals[r] EXCEPT !.verified_product_name = v.name, !.is_match = v.is_match]
  IN  /\ locals' = [locals EXCEPT ![r] = l]
      /\ ret' = [ret EXCEPT ![r] = Assemble(r, l, v)]
      /\ pc' = [pc EXCEPT ![r] = "returned"]

\* Lines 186-199: the chat completion answered with the text raw.
VerifyReturn(r, raw) ==
  /\ pc[r] = "verify_call"
  /\ Answered(r, verify_response(raw, locals[r].matched_product_names))
  /\ UNCHANGED << tableVars, embedding_cache, cache_file, phase, main_pc, base_embeddings,
                  base_embeddings_np, attempt, hist, results_list, filtered_df_results,
                  verifierVars, providerVars >>

\* Lines 200-202: the chat completion raised.
VerifyRaise(r) ==
  /\ pc[r] = "verify_call"
  /\ Answered(r, verify_exception)
  /\ hist' = [hist EXCEPT ![r].verifier_errors = @ + 1]
  /\ UNCHANGED << tableVars, embedding_cache, cache_file, phase, main_pc, base_embeddings,
                  base_embeddings_np, attempt, results_list, filtered_df_results,
                  verifierVars, providerVars >>

\* ----------------------------------------- main loop (lines 291-310)
\* A main loop that leaves out the rows that failed.
CollectedDropsFailed(list, r, result) ==
  IF result.branch \in {"None", "Escaped", "Failed"}
  THEN list
  ELSE Append(list, [row |-> r, result |-> result])

\* Lines 302-307: a truthy result is appended; None is not; an exception of
\* the future is printed and the row leaves nothing.
Collected(list, r, result) ==
  IF result.branch \in {"None", "Escaped"}
  THEN list
  ELSE Append(list, [row |-> r, result |-> result])

Collect(r) ==
  /\ phase = "pool"
  /\ pc[r] = "returned"
  /\ results_list' = Collected(results_list, r, ret[r])
  /\ pc' = [pc EXCEPT ![r] = "collected"]
  /\ UNCHANGED << tableVars, embedding_cache, cache_file, phase, main_pc, base_embeddings,
                  base_embeddings_np, attempt, locals, ret, hist, filtered_df_results,
                  verifierVars, providerVars >>

\* A filter on the similarity alone.
KeepRowUnverified(x) == SimAtLeast(x.similarity, similarity_threshold)

\* Line 311: (similarity >= 0.8) & (verified_match == True).
KeepRow(x) == SimAtLeast(x.similarity, similarity_threshold) /\ x.verified_match = TRUE

\* Lines 312-314: the column diff = price_from_line / price_from_watson.
WithDiff(e) ==
  [row |-> e.row, result |-> e.result,
   diff |-> [num |-> e.result.price_from_line, den |-> e.result.price_from_watson]]

RECURSIVE FilterRows(_)
FilterRows(list) ==
  IF list = <<>> THEN <<>>
  ELSE IF KeepRow(Head(list).result)
  THEN <<WithDiff(Head(list))>> \o FilterRows(Tail(list))
  ELSE FilterRows(Tail(list))

\* Lines 351-362: embeddings_cache.pkl is removed when it exists.
RemoveCacheFile(file) == Absent

\* The end of the script on the main thread, lines 308-372: the with block
\* ends when every future is collected, df_results is built and filtered
\* (310-314), written and uploaded (320-349), and the local files are
\* removed (351-372).  A frame built from an empty list has no column
\* "similarity": the filter raises, nothing catches it and the script
\* ends before the cleanup.
Finish ==
  /\ phase = "pool"
  /\ \A r \in Rows : pc[r] = "collected"
  /\ IF results_list = <<>>
     THEN phase' = "aborted" /\ UNCHANGED << filtered_df_results, cache_file >>
     ELSE /\ phase' = "done"
          /\ filtered_df_results' = FilterRows(results_list)
          /\ cache_file' = RemoveCacheFile(cache_file)
  /\ UNCHANGED << tableVars, embedding_cache, main_pc, base_embeddings, base_embeddings_np,
                  workerVars, results_list, verifierVars, providerVars >>

Next ==
  \/ LoadCache
  \/ BaseLookup
  \/ BaseEmbedReturn
  \/ BaseEmbedRaise
  \/ BaseFileOpen
  \/ BaseFileDump
  \/ BuildIndex
  \/ BuildIndexRaise
  \/ \E r \in Rows : StartRow(r)
  \/ \E r \in Rows : Lookup(r)
  \/ \E r \in Rows : EmbedReturn(r)
  \/ \E r \in Rows : EmbedRaise(r)
  \/ \E r \in Rows : FileOpen(r)
  \/ \E r \in Rows : FileDump(r)
  \/ \E r \in Rows : FileDumpRaise(r)
  \/ \E r \in Rows : FileCloseLate(r)
  \/ \E r \in Rows, raw \in RawResponses : VerifyReturn(r, raw)
  \/ \E r \in Rows : VerifyRaise(r)
  \/ \E r \in Rows : Collect(r)
  \/ Finish

Spec == Init /\ [][Next]_vars

\* ----------- the pipeline on names that are blank, whitespace-only or repeated
\* A first run (no cache file) over tables that carry a name of one space
\* and an empty name next to ordinary ones, or the same name twice.
nSpace == <<" ">>

RepeatedNameTable ==
  << [product_name |-> nA, sale_price |-> 10], [product_name |-> nA, sale_price |-> 11] >>

BlankBaseTables ==
  { << [product_name |-> nA, sale_price |-> 10], [product_name |-> nSpace, sale_price |-> 6] >>,
    RepeatedNameTable,
    << [product_name |-> nB, sale_price |-> 20], [product_name |-> <<>>, sale_price |-> 5] >> }

BlankQueryPool ==
  << [product_name |-> nSpace, sale_price |-> 4],
     [product_name |-> nb, sale_price |-> 12],
     [product_name |-> <<>>, sale_price |-> 5] >>

BlankQueryTables ==
  { [i \in 1..MaxQueryRows |-> BlankQueryPool[((i + k - 1) % Len(BlankQueryPool)) + 1]] :
      k \in 0..(Len(BlankQueryPool) - 1) }

BInit ==
  /\ df_base \in BlankBaseTables
  /\ df_query \in BlankQueryTables
  /\ cache_file = Absent
  /\ embedding_cache = EmptyDict
  /\ phase = "load"
  /\ main_pc = "lookup"
  /\ base_embeddings = <<>>
  /\ base_embeddings_np = Unbuilt
  /\ pc = [r \in 1..MaxQueryRows |-> "pending"]
  /\ attempt = [r \in 1..MaxQueryRows |-> 0]
  /\ locals = [r \in 1..MaxQueryRows |-> NoLocals]
  /\ ret = [r \in 1..MaxQueryRows |-> NoReturn]
  /\ results_list = <<>>
  /\ hist = [r \in 1..MaxQueryRows |-> NoHist]
  /\ filtered_df_results = <<>>
  /\ v_in = NoVerifierInput
  /\ v_out = NoVerifierOutput
  /\ ProviderIdle

BSpec == BInit /\ [][Next]_vars

\* Every step of the future of row r: the worker that runs it, the provider
\* and the chat model that answer it, and the main thread that collects it.
RowStep(r) ==
  \/ StartRow(r)
  \/ Lookup(r)
  \/ EmbedReturn(r)
  \/ EmbedRaise(r)
  \/ FileOpen(r)
  \/ FileDump(r)
  \/ FileDumpRaise(r)
  \/ FileCloseLate(r)
  \/ \E raw \in RawResponses : VerifyReturn(r, raw)
  \/ VerifyRaise(r)
  \/ Collect(r)

\* Threads that are runnable run, every remote call returns or raises, and
\* the main thread goes on when the with block of line 296 is left.
Fairness ==
  /\ \A r \in 1..MaxQueryRows : WF_vars(RowStep(r))
  /\ WF_vars(Finish)

\* The fair runs start from the tables with a blank name.
LInit == BInit /\ df_base # RepeatedNameTable

LSpec == LInit /\ [][Next]_vars /\ Fairness

\* ------------------------------------ a chat completion that never answers
\* The row whose verifier call hangs.
HungRow == 1

\* A client that gives up on the call after a while.
CallEndsWithTimeout(r) == TRUE

\* Lines 186-194: the call is made without a timeout of the script's own,
\* and nothing else ends it: the call of the hung row neither returns nor
\* raises.
CallEnds(r) == r # HungRow

HVerifyReturn(r, raw) == CallEnds(r) /\ VerifyReturn(r, raw)

HVerifyRaise(r) == CallEnds(r) /\ VerifyRaise(r)

HNext ==
  \/ LoadCache
  \/ BaseLookup
  \/ BaseEmbedReturn
  \/ BaseEmbedRaise
  \/ BaseFileOpen
  \/ BaseFileDump
  \/ BuildIndex
  \/ BuildIndexRaise
  \/ \E r \in Rows : StartRow(r)
  \/ \E r \in Rows : Lookup(r)
  \/ \E r \in Rows : EmbedReturn(r)
  \/ \E r \in Rows : EmbedRaise(r)
  \/ \E r \in Rows : FileOpen(r)
  \/ \E r \in Rows : FileDump(r)
  \/ \E r \in Rows : FileDumpRaise(r)
  \/ \E r \in Rows : FileCloseLate(r)
  \/ \E r \in Rows, raw \in RawResponses : HVerifyReturn(r, raw)
  \/ \E r \in Rows : HVerifyRaise(r)
  \/ \E r \in Rows : Collect(r)
  \/ Finish

HSpec == LInit /\ [][HNext]_vars

\* ------------------------------ the executor with more rows than workers
\* One row more than the executor has threads, every name already cached,
\* the verifier answering the first base name.
PoolRows == max_workers + 1

FullCache == DictPut(DictPut(DictPut(EmptyDict, nA, <<1, 0>>), nB, <<0, 1>>), na, <<1, 1>>)

PInit ==
  /\ df_base = << [product_name |-> nA, sale_price |-> 10],
                  [product_name |-> nB, sale_price |-> 20] >>
  /\ df_query = [i \in 1..PoolRows |-> [product_name |-> nA, sale_price |-> 8]]
  /\ cache_file = Pickled(FullCache)
  /\ embedding_cache = EmptyDict
  /\ phase = "load"
  /\ main_pc = "lookup"
  /\ base_embeddings = <<>>
  /\ base_embeddings_np = Unbuilt
  /\ pc = [r \in 1..PoolRows |-> "pending"]
  /\ attempt = [r \in 1..PoolRows |-> 0]
  /\ locals = [r \in 1..PoolRows |-> NoLocals]
  /\ ret = [r \in 1..PoolRows |-> NoReturn]
  /\ results_list = <<>>
  /\ hist = [r \in 1..PoolRows |-> NoHist]
  /\ filtered_df_results = <<>>
  /\ v_in = NoVerifierInput
  /\ v_out = NoVerifierOutput
  /\ ProviderIdle

\* The steps of the script that such a run can take.
PNext ==
  \/ LoadCache
  \/ BaseLookup
  \/ BuildIndex
  \/ \E r \in Rows : StartRow(r)
  \/ \E r \in Rows : Lookup(r)
  \/ \E r \in Rows : VerifyReturn(r, nA)
  \/ \E r \in Rows : Collect(r)
  \/ Finish

PSpec == PInit /\ [][PNext]_vars

\* ------------------------------- the search over more rows than top_n
\* One query row against a base table of top_n + 1 rows whose vectors,
\* already in the cache file, are drawn from IndexVectors; the query name is
\* the first base name.
IndexNames == << nA, nB, na, nb >>

IndexVectors == { <<1, 0>>, <<1, 1>>, <<0, 1>>, <<-1, 0>>, <<0, 0>> }

TInit ==
  /\ df_base = [i \in 1..(top_n + 1) |-> [product_name |-> IndexNames[i], sale_price |-> 10 * i]]
  /\ df_query = << [product_name |-> nA, sale_price |-> 8] >>
  /\ \E d \in [{ IndexNames[i] : i \in 1..(top_n + 1) } -> IndexVectors] :
       cache_file = Pickled(d)
  /\ embedding_cache = EmptyDict
  /\ phase = "load"
  /\ main_pc = "lookup"
  /\ base_embeddings = <<>>
  /\ base_embeddings_np = Unbuilt
  /\ pc = << "pending" >>
  /\ attempt = << 0 >>
  /\ locals = << NoLocals >>
  /\ ret = << NoReturn >>
  /\ results_list = <<>>
  /\ hist = << NoHist >>
  /\ filtered_df_results = <<>>
  /\ v_in = NoVerifierInput
  /\ v_out = NoVerifierOutput
  /\ ProviderIdle

\* The steps of the script that such a run can take.
TNext ==
  \/ LoadCache
  \/ BaseLookup
  \/ BuildIndex
  \/ \E r \in Rows : StartRow(r)
  \/ \E r \in Rows : Lookup(r)
  \/ \E r \in Rows, raw \in RawResponses : VerifyReturn(r, raw)
  \/ \E r \in Rows : VerifyRaise(r)
  \/ \E r \in Rows : Collect(r)
  \/ Finish

TSpec == TInit /\ [][TNext]_vars

\* ------ the report filters of src/app/archived/find_similar_{gemini,qwen}.py
\* diff is price_from_line / price_from_watson as polars divides: x/0 is
\* inf for x > 0 and 0/0 is nan.  polars orders nan above every number.
DiffIsNaN(d) == d.num = 0 /\ d.den = 0
DiffIsInf(d) == d.num > 0 /\ d.den = 0

\* pl.col("diff") < t/10
DiffBelow(d, t) == ~DiffIsNaN(d) /\ ~DiffIsInf(d) /\ d.num * 10 < t * d.den

\* pl.col("diff") > t/10
DiffAbove(d, t) == DiffIsNaN(d) \/ DiffIsInf(d) \/ d.num * 10 > t * d.den

\* pl.col("diff") >= t/10
DiffAtLeast(d, t) == DiffIsNaN(d) \/ DiffIsInf(d) \/ d.num * 10 >= t * d.den

\* find_similar_gemini.py, lines 242-246.
RECURSIVE GeminiFilter(_)
GeminiFilter(list) ==
  IF list = <<>> THEN <<>>
  ELSE LET e == WithDiff(Head(list))
           keep == /\ SimAtLeast(e.result.similarity, similarity_threshold)
                   /\ DiffBelow(e.diff, diff_upper)
                   /\ DiffAbove(e.diff, diff_lower)
       IN  (IF keep THEN <<e>> ELSE <<>>) \o GeminiFilter(Tail(list))

\* find_similar_qwen.py, lines 115-119.
RECURSIVE QwenFilter(_)
QwenFilter(list) ==
  IF list = <<>> THEN <<>>
  ELSE LET e == WithDiff(Head(list))
           keep == /\ SimAtLeast(e.result.similarity, qwen_similarity_threshold)
                   /\ DiffAtLeast(e.diff, diff_upper)
       IN  (IF keep THEN <<e>> ELSE <<>>) \o QwenFilter(Tail(list))

\* The rows of results_list of these scripts: prices as read from the CSV
\* files and the similarity of the best match.
ReportPricesLine == {1, 2, 3}
ReportPricesWatson == {0, 1, 2, 4}
ReportSimilarities == { Sim(1, 1), Sim(6561, 10000), Sim(1, 2) }

ReportRows ==
  [price_from_line : ReportPricesLine \cup {0}, price_from_watson : ReportPricesWatson,
   similarity : ReportSimilarities]

RInit ==
  /\ df_base = <<>>
  /\ df_query = <<>>
  /\ cache_file = Absent
  /\ embedding_cache = EmptyDict
  /\ phase = "report"
  /\ main_pc = "lookup"
  /\ base_embeddings = <<>>
  /\ base_embeddings_np = Unbuilt
  /\ pc = <<>>
  /\ attempt = <<>>
  /\ locals = <<>>
  /\ ret = <<>>
  /\ \E n \in 1..MaxQueryRows : \E rows \in [1..n -> ReportRows] :
       results_list = [i \in 1..n |-> [row |-> i, result |-> rows[i]]]
  /\ hist = <<>>
  /\ filtered_df_results = <<>>
  /\ v_in = NoVerifierInput
  /\ v_out = NoVerifierOutput
  /\ ProviderIdle

\* find_similar_gemini.py, lines 241-246.
GeminiReport ==
  /\ phase = "report"
  /\ filtered_df_results' = GeminiFilter(results_list)
  /\ phase' = "gemini_report"
  /\ UNCHANGED << tableVars, embedding_cache, cache_file, main_pc, base_embeddings,
                  base_embeddings_np, workerVars, results_list, verifierVars, providerVars >>

\* find_similar_qwen.py, lines 114-119.
QwenReport ==
  /\ phase = "report"
  /\ filtered_df_results' = QwenFilter(results_list)
  /\ phase' = "qwen_report"
  /\ UNCHANGED << tableVars, embedding_cache, cache_file, main_pc, base_embeddings,
                  base_embeddings_np, workerVars, results_list, verifierVars, providerVars >>

RNext == GeminiReport \/ QwenReport

RSpec == RInit /\ [][RNext]_vars

\* --------------------------------- the verifier on its own (lines 167-202)
Alphabet == {"A", "a", " "}
Texts == UNION { [1..n -> Alphabet] : n \in 0..MaxStrLen }
CandidateLists == UNION { [1..n -> Texts \cup {NoneText}] : n \in 0..2 }

VInit ==
  /\ df_base = <<>>
  /\ df_query = <<>>
  /\ cache_file = Absent
  /\ embedding_cache = EmptyDict
  /\ phase = "verifier"
  /\ main_pc = "lookup"
  /\ base_embeddings = <<>>
  /\ base_embeddings_np = Unbuilt
  /\ pc = <<>>
  /\ attempt = <<>>
  /\ locals = <<>>
  /\ ret = <<>>
  /\ results_list = <<>>
  /\ hist = <<>>
  /\ filtered_df_results = <<>>
  /\ ProviderIdle
  /\ v_in \in [base_product : {nA}, product_list_to_compare : CandidateLists,
               raw : Texts \cup {NoneText}]
  /\ v_out = NoVerifierOutput

pipelineVars ==
  << df_base, df_query, embedding_cache, cache_file, phase, main_pc, base_embeddings,
     base_embeddings_np, pc, attempt, locals, ret, results_list, hist, filtered_df_results >>

\* Lines 178-179: an empty list is answered without a remote call.
VerifierEmptyList ==
  /\ phase = "verifier"
  /\ ~v_out.called
  /\ v_in.product_list_to_compare = <<>>
  /\ v_out' = [called |-> TRUE, raised |-> FALSE, name |-> <<>>, is_match |-> FALSE]
  /\ UNCHANGED << pipelineVars, providerVars, v_in >>

\* Lines 186-199: the model answered v_in.raw.
VerifierAnswer ==
  /\ phase = "verifier"
  /\ ~v_out.called
  /\ v_in.product_list_to_compare # <<>>
  /\ LET v == verify_response(v_in.raw, v_in.product_list_to_compare)
     IN  v_out' = [called |-> TRUE, raised |-> FALSE, name |-> v.name,
                   is_match |-> v.is_match]
  /\ UNCHANGED << pipelineVars, providerVars, v_in >>

\* Lines 200-202: the call raised.
VerifierError ==
  /\ phase = "verifier"
  /\ ~v_out.called
  /\ v_in.product_list_to_compare # <<>>
  /\ v_out' = [called |-> TRUE, raised |-> TRUE, name |-> verify_exception.name,
               is_match |-> verify_exception.is_match]
  /\ UNCHANGED << pipelineVars, providerVars, v_in >>

VNext == VerifierEmptyList \/ VerifierAnswer \/ VerifierError

VSpec == VInit /\ [][VNext]_vars

\* ------- get_embeddings_with_caching (src/app/archived/find_similar_gemini.py)
\* sorted() orders str by code point.
CodePoint(c) ==
  CASE c = " " -> 32
    [] c = "A" -> 65
    [] c = "B" -> 66
    [] c = "a" -> 97
    [] c = "b" -> 98

RECURSIVE TextLess(_, _)
TextLess(s, t) ==
  IF t = <<>> THEN FALSE
  ELSE IF s = <<>> THEN TRUE
  ELSE IF Head(s) = Head(t) THEN TextLess(Tail(s), Tail(t))
  ELSE CodePoint(Head(s)) < CodePoint(Head(t))

sorted(S) ==
  CHOOSE l \in [1..Cardinality(S) -> S] :
    \A i \in 1..(Cardinality(S) - 1) : TextLess(l[i], l[i + 1])

\* Line 38: sorted(list(set(t for t in texts if t.strip() and t not in cache))).
TextsToEmbed(list, cache) ==
  sorted({ list[i] : i \in { j \in DOMAIN list :
                               strip(list[j]) # <<>> /\ list[j] \notin DOMAIN cache } })

\* A slice that takes one text more than batch_size.
BatchOneMore(i) == SubSeq(texts_to_embed, i + 1, Min(i + batch_size + 1, Len(texts_to_embed)))

\* Line 49: texts_to_embed[i:i + batch_size].
Batch(i) == SubSeq(texts_to_embed, i + 1, Min(i + batch_size, Len(texts_to_embed)))

\* A loop that is left after a batch that failed.
NextBatchStartBreakOnError(i, raised) ==
  IF raised THEN Len(texts_to_embed) ELSE i + batch_size

\* Line 48: range(0, len(texts_to_embed), batch_size).
NextBatchStart(i, raised) == i + batch_size

\* A handler that leaves the texts of a failed batch out of the cache.
FailedEntriesDropped(cache, batch) == cache

\* Lines 69-70: every text of the batch is stored with [].
RECURSIVE FailedEntries(_, _)
FailedEntries(cache, batch) ==
  IF batch = <<>> THEN cache
  ELSE FailedEntries(DictPut(cache, Head(batch), <<>>), Tail(batch))

\* Lines 61-62: zip(batch, new_embeddings) stops at the shorter of the two.
RECURSIVE ZippedEntries(_, _, _)
ZippedEntries(cache, batch, k) ==
  IF batch = <<>> \/ k = 0 THEN cache
  ELSE ZippedEntries(DictPut(cache, Head(batch), Embedding(Head(batch))), Tail(batch), k - 1)

ProviderTexts == { nA, na, nb, <<" ">>, <<>> }

\* The cache as loaded at lines 88-93: empty, or holding a vector or a
\* failure mark of an earlier run.
ProviderCaches ==
  { EmptyDict, DictPut(EmptyDict, na, <<1, 1>>), DictPut(EmptyDict, nb, <<>>) }

GInit ==
  /\ df_base = <<>>
  /\ df_query = <<>>
  /\ embedding_cache \in ProviderCaches
  /\ cache_file = (IF embedding_cache = EmptyDict THEN Absent ELSE Pickled(embedding_cache))
  /\ phase = "provider"
  /\ main_pc = "lookup"
  /\ base_embeddings = <<>>
  /\ base_embeddings_np = Unbuilt
  /\ pc = <<>>
  /\ attempt = <<>>
  /\ locals = <<>>
  /\ ret = <<>>
  /\ results_list = <<>>
  /\ hist = <<>>
  /\ filtered_df_results = <<>>
  /\ v_in = NoVerifierInput
  /\ v_out = NoVerifierOutput
  /\ texts \in UNION { [1..n -> ProviderTexts] : n \in 0..MaxTexts }
  /\ batch_size \in 1..MaxBatchSize
  /\ texts_to_embed = <<>>
  /\ batch_start = 0
  /\ cache_updated = FALSE
  /\ provider_pc = "start"
  /\ batch_log = <<>>
  /\ TokenIdle
  /\ DagIdle
  /\ ScraperIdle

restVars ==
  << df_base, df_query, phase, main_pc, base_embeddings, base_embeddings_np, pc, attempt,
     locals, ret, results_list, hist, filtered_df_results, v_in, v_out, texts, batch_size,
     tokenVars, dagVars, scraperVars >>

\* Lines 38-46: nothing to embed returns the cache at once.
Prepare ==
  /\ phase = "provider"
  /\ provider_pc = "start"
  /\ texts_to_embed' = TextsToEmbed(texts, embedding_cache)
  /\ provider_pc' = (IF texts_to_embed' = <<>> THEN "returned" ELSE "batch")
  /\ UNCHANGED << restVars, embedding_cache, cache_file, batch_start, cache_updated, batch_log >>

\* Lines 48-53: the next batch is cut and genai.embed_content is called.
IssueBatch ==
  /\ phase = "provider"
  /\ provider_pc = "batch"
  /\ batch_start < Len(texts_to_embed)
  /\ provider_pc' = "embed_call"
  /\ UNCHANGED << restVars, embedding_cache, cache_file, texts_to_embed, batch_start,
                  cache_updated, batch_log >>

\* Lines 58-63 and 74-75: the call answered with k vectors, in the order of
\* the batch.
BatchReturn(k) ==
  /\ phase = "provider"
  /\ provider_pc = "embed_call"
  /\ k <= Len(Batch(batch_start))
  /\ embedding_cache' = ZippedEntries(embedding_cache, Batch(batch_start), k)
  /\ cache_updated' = TRUE
  /\ batch_log' = Append(batch_log, [batch |-> Batch(batch_start), raised |-> FALSE,
                                     vectors |-> k])
  /\ batch_start' = NextBatchStart(batch_start, FALSE)
  /\ provider_pc' = "batch"
  /\ UNCHANGED << restVars, cache_file, texts_to_embed >>

\* Line 65: except Exception.
BatchFailureIsCaught == TRUE

\* Lines 65-75: the call raised.
BatchRaise ==
  /\ phase = "provider"
  /\ provider_pc = "embed_call"
  /\ batch_log' = Append(batch_log, [batch |-> Batch(batch_start), raised |-> TRUE,
                                     vectors |-> 0])
  /\ IF BatchFailureIsCaught
     THEN /\ embedding_cache' = FailedEntries(embedding_cache, Batch(batch_start))
          /\ cache_updated' = TRUE
          /\ batch_start' = NextBatchStart(batch_start, TRUE)
          /\ provider_pc' = "batch"
     ELSE /\ provider_pc' = "raised"
          /\ UNCHANGED << embedding_cache, cache_updated, batch_start >>
  /\ UNCHANGED << restVars, cache_file, texts_to_embed >>

\* A function that returns without writing the file.
SavedFileNever(file, cache, updated) == file

\* Lines 77-80: if cache_updated, the whole dict is pickled.
SavedFile(file, cache, updated) == IF updated THEN Pickled(cache) ELSE file

\* Lines 77-82: after the last batch the cache is saved once and returned.
SaveCache ==
  /\ phase = "provider"
  /\ provider_pc = "batch"
  /\ batch_start >= Len(texts_to_embed)
  /\ cache_file' = SavedFile(cache_file, embedding_cache, cache_updated)
  /\ provider_pc' = "returned"
  /\ UNCHANGED << restVars, embedding_cache, texts_to_embed, batch_start, cache_updated,
                  batch_log >>

GNext ==
  \/ Prepare
  \/ IssueBatch
  \/ \E k \in 0..MaxBatchSize : BatchReturn(k)
  \/ BatchRaise
  \/ SaveCache

GSpec == GInit /\ [][GNext]_vars

\* -------- get_embeddings_with_caching called again over the same file names
\* Lines 88-93: the dict of the file, or {} when there is no file.
LoadedCache(file) == file.data

\* Line 118 once more: in the same process the dict in memory is passed in,
\* in a later run of the script over the same CSV files the dict loaded at
\* lines 88-93.
CallAgain(reload) ==
  /\ phase = "provider"
  /\ provider_pc = "returned"
  /\ Len(batch_log) < MaxTexts
  /\ embedding_cache' = (IF reload THEN LoadedCache(cache_file) ELSE embedding_cache)
  /\ provider_pc' = "start"
  /\ texts_to_embed' = <<>>
  /\ batch_start' = 0
  /\ cache_updated' = FALSE
  /\ UNCHANGED << restVars, cache_file, batch_log >>

G2Next ==
  \/ Prepare
  \/ IssueBatch
  \/ \E k \in 0..MaxBatchSize : BatchReturn(k)
  \/ BatchRaise
  \/ SaveCache
  \/ \E reload \in BOOLEAN : CallAgain(reload)

G2Spec == GInit /\ [][G2Next]_vars

\* ------------- get_watsons_token (src/dags/extract_data/selenium_browser_proxy.py)
\* The values an Authorization request header of the site may carry.
TokenValues == { "bearer a", "bearer b" }

idleVars ==
  << df_base, df_query, embedding_cache, cache_file, phase, main_pc, base_embeddings,
     base_embeddings_np, pc, attempt, locals, ret, results_list, hist, filtered_df_results,
     v_in, v_out, texts, batch_size, texts_to_embed, batch_start, cache_updated, provider_pc,
     batch_log >>

WInit ==
  /\ df_base = <<>>
  /\ df_query = <<>>
  /\ cache_file = Absent
  /\ embedding_cache = EmptyDict
  /\ phase = "token"
  /\ main_pc = "lookup"
  /\ base_embeddings = <<>>
  /\ base_embeddings_np = Unbuilt
  /\ pc = <<>>
  /\ attempt = <<>>
  /\ locals = <<>>
  /\ ret = <<>>
  /\ results_list = <<>>
  /\ hist = <<>>
  /\ filtered_df_results = <<>>
  /\ v_in = NoVerifierInput
  /\ v_out = NoVerifierOutput
  /\ texts = <<>>
  /\ batch_size = 1
  /\ texts_to_embed = <<>>
  /\ batch_start = 0
  /\ cache_updated = FALSE
  /\ provider_pc = "idle"
  /\ batch_log = <<>>
  /\ token_pc = "start"
  /\ server = "unstarted"
  /\ user_data_dir_for_cleanup = "None"
  /\ attempt_no = 0
  /\ authorization_token = NoToken
  /\ current_driver = 0
  /\ final_driver_to_quit = 0
  /\ quits = [d \in 1..max_retries |-> 0]
  /\ har_log = <<>>
  /\ token_exit = "none"
  /\ DagIdle
  /\ ScraperIdle

\* Lines 15-25: the proxy is found and started, or the function raises
\* before its try block with no server running.
ServerStart(ok) ==
  /\ token_pc = "start"
  /\ IF ok
     THEN /\ server' = "running"
          /\ token_pc' = "mkdtemp"
          /\ UNCHANGED token_exit
     ELSE /\ token_exit' = "raise"
          /\ token_pc' = "exit"
          /\ UNCHANGED server
  /\ UNCHANGED << idleVars, user_data_dir_for_cleanup, attempt_no, authorization_token,
                  current_driver, final_driver_to_quit, quits, har_log, dagVars, scraperVars >>

\* Lines 28-29: tempfile.mkdtemp() makes the directory, or raises.
MkDtemp(ok) ==
  /\ token_pc = "mkdtemp"
  /\ IF ok
     THEN /\ user_data_dir_for_cleanup' = "exists"
          /\ token_pc' = "attempt"
          /\ UNCHANGED token_exit
     ELSE /\ token_exit' = "raise"
          /\ token_pc' = "finally"
          /\ UNCHANGED user_data_dir_for_cleanup
  /\ UNCHANGED << idleVars, server, attempt_no, authorization_token, current_driver,
                  final_driver_to_quit, quits, har_log, dagVars, scraperVars >>

\* Lines 31-49: the proxy client and the WebDriver of the attempt are made
\* ("driver"), one of the calls raises an Exception ("raise"), or the
\* process is interrupted by something that is no Exception ("interrupt").
AttemptBegin(outcome) ==
  /\ token_pc = "attempt"
  /\ CASE outcome = "driver" ->
            /\ current_driver' = attempt_no + 1
            /\ final_driver_to_quit' = attempt_no + 1
            /\ token_pc' = "capture"
            /\ UNCHANGED << har_log, token_exit >>
       [] outcome = "raise" ->
            /\ current_driver' = 0
            /\ har_log' = Append(har_log, [kind |-> "raise", value |-> NoToken,
                                            driver |-> FALSE])
            /\ token_pc' = "attempt_finally"
            /\ UNCHANGED << final_driver_to_quit, token_exit >>
       [] outcome = "interrupt" ->
            /\ current_driver' = 0
            /\ har_log' = Append(har_log, [kind |-> "interrupt", value |-> NoToken,
                                            driver |-> FALSE])
            /\ token_exit' = "raise"
            /\ token_pc' = "attempt_finally"
            /\ UNCHANGED final_driver_to_quit
  /\ UNCHANGED << idleVars, server, user_data_dir_for_cleanup, attempt_no,
                  authorization_token, quits, dagVars, scraperVars >>

\* Lines 51-74: the page is loaded and the HAR is searched for an
\* Authorization request header.
Capture(outcome, value) ==
  /\ token_pc = "capture"
  /\ har_log' = Append(har_log, [kind |-> outcome,
                                 value |-> IF outcome = "header" THEN value ELSE NoToken,
                                 driver |-> TRUE])
  /\ authorization_token' = (IF outcome = "header" THEN value ELSE authorization_token)
  /\ token_exit' = (IF outcome = "interrupt" THEN "raise" ELSE token_exit)
  /\ token_pc' = "attempt_finally"
  /\ UNCHANGED << idleVars, server, user_data_dir_for_cleanup, attempt_no, current_driver,
                  final_driver_to_quit, quits, dagVars, scraperVars >>

\* Line 64, 67, 77, 84, 90: if authorization_token.
TokenFound(token) == token # NoToken

\* A cleanup that leaves final_driver_to_quit as it is.
FinalKept(final, current) == final

\* Lines 81-82: the driver just quit is not left to the outer finally.
FinalAfterQuit(final, current) == IF final = current THEN 0 ELSE final

\* Lines 76-82: the driver of an attempt without a token is quit.
AttemptFinally ==
  /\ token_pc = "attempt_finally"
  /\ IF ~TokenFound(authorization_token) /\ current_driver # 0
     THEN /\ quits' = [quits EXCEPT ![current_driver] = @ + 1]
          /\ final_driver_to_quit' = FinalAfterQuit(final_driver_to_quit, current_driver)
     ELSE UNCHANGED << quits, final_driver_to_quit >>
  /\ token_pc' = (IF token_exit = "raise" THEN "finally" ELSE "loop_next")
  /\ UNCHANGED << idleVars, server, user_data_dir_for_cleanup, attempt_no,
                  authorization_token, current_driver, har_log, token_exit, dagVars,
                  scraperVars >>

\* A loop that goes on after a token was found.
LeavesLoopAfterLast(token, n) == n + 1 >= max_retries

\* Lines 31 and 84-88: break with a token, otherwise the next attempt while
\* there is one.
LeavesLoop(token, n) == TokenFound(token) \/ n + 1 >= max_retries

LoopNext ==
  /\ token_pc = "loop_next"
  /\ IF LeavesLoop(authorization_token, attempt_no)
     THEN /\ token_pc' = "return"
          /\ UNCHANGED attempt_no
     ELSE /\ token_pc' = "attempt"
          /\ attempt_no' = attempt_no + 1
  /\ UNCHANGED << idleVars, server, user_data_dir_for_cleanup, authorization_token,
                  current_driver, final_driver_to_quit, quits, har_log, token_exit, dagVars,
                  scraperVars >>

\* Lines 90-95: return authorization_token, the finally block still to run.
Return ==
  /\ token_pc = "return"
  /\ token_exit' = "return"
  /\ token_pc' = "finally"
  /\ UNCHANGED << idleVars, server, user_data_dir_for_cleanup, attempt_no,
                  authorization_token, current_driver, final_driver_to_quit, quits, har_log,
                  dagVars, scraperVars >>

\* Lines 97-111: the driver kept is quit, the directory removed, the
\* server stopped.
OuterFinally ==
  /\ token_pc = "finally"
  /\ quits' = (IF final_driver_to_quit # 0
               THEN [quits EXCEPT ![final_driver_to_quit] = @ + 1] ELSE quits)
  /\ user_data_dir_for_cleanup' =
       (IF user_data_dir_for_cleanup = "exists" THEN "removed" ELSE user_data_dir_for_cleanup)
  /\ server' = "stopped"
  /\ token_pc' = "exit"
  /\ UNCHANGED << idleVars, attempt_no, authorization_token, current_driver,
                  final_driver_to_quit, har_log, token_exit, dagVars, scraperVars >>

WNext ==
  \/ \E ok \in BOOLEAN : ServerStart(ok)
  \/ \E ok \in BOOLEAN : MkDtemp(ok)
  \/ \E outcome \in {"driver", "raise", "interrupt"} : AttemptBegin(outcome)
  \/ \E outcome \in {"header", "none", "raise", "interrupt"} : \E value \in TokenValues :
       Capture(outcome, value)
  \/ AttemptFinally
  \/ LoopNext
  \/ Return
  \/ OuterFinally

WSpec == WInit /\ [][WNext]_vars

\* ------------------------------- the DAG run (src/dags/web_scraping_dag.py)
\* Lines 114-117: the tasks a task waits for.
Upstream(t) ==
  CASE t = "get_and_update_token" -> {}
    [] t = "scrape_watsons_data" -> {"get_and_update_token"}
    [] t = "scrape_line_shopping_data" -> {"get_and_update_token"}
    [] t = "process_pre_landing_watson_data" -> {"scrape_watsons_data"}
    [] t = "process_pre_landing_line_data" -> {"scrape_line_shopping_data"}
    [] t = "write_compare_price_report" ->
         {"process_pre_landing_watson_data", "process_pre_landing_line_data"}

\* The value of the Variable before the run.
OldTokens == { "unset", "bearer old" }

DInit ==
  /\ df_base = <<>>
  /\ df_query = <<>>
  /\ cache_file = Absent
  /\ embedding_cache = EmptyDict
  /\ phase = "dag"
  /\ main_pc = "lookup"
  /\ base_embeddings = <<>>
  /\ base_embeddings_np = Unbuilt
  /\ pc = <<>>
  /\ attempt = <<>>
  /\ locals = <<>>
  /\ ret = <<>>
  /\ results_list = <<>>
  /\ hist = <<>>
  /\ filtered_df_results = <<>>
  /\ v_in = NoVerifierInput
  /\ v_out = NoVerifierOutput
  /\ texts = <<>>
  /\ batch_size = 1
  /\ texts_to_embed = <<>>
  /\ batch_start = 0
  /\ cache_updated = FALSE
  /\ provider_pc = "idle"
  /\ batch_log = <<>>
  /\ TokenIdle
  /\ task_state = [t \in Tasks |-> "none"]
  /\ WATSONS_BEARER_TOKEN \in OldTokens
  /\ ScraperIdle

\* A rule that lets a task run once its upstream tasks have ended.
UpstreamDone(t) == \A u \in Upstream(t) : task_state[u] \in {"success", "failed"}

\* Lines 19, 34, 52, 70, 76, 82: @task without trigger_rule, that is
\* all_success.
UpstreamSucceeded(t) == \A u \in Upstream(t) : task_state[u] = "success"

\* Lines 107 and 23: the token task starts and calls get_watsons_token.
TokenTaskStart ==
  /\ phase = "dag"
  /\ task_state["get_and_update_token"] = "none"
  /\ task_state' = [task_state EXCEPT !["get_and_update_token"] = "running"]
  /\ token_pc' = "start"
  /\ UNCHANGED << idleVars, server, user_data_dir_for_cleanup, attempt_no,
                  authorization_token, current_driver, final_driver_to_quit, quits, har_log,
                  token_exit, WATSONS_BEARER_TOKEN, scraperVars >>

\* Lines 25-31: with a token the Variable is set; without one, or when
\* get_watsons_token raised, the task fails.
TokenTaskEnd ==
  /\ phase = "dag"
  /\ task_state["get_and_update_token"] = "running"
  /\ token_pc = "exit"
  /\ IF token_exit = "return" /\ TokenFound(authorization_token)
     THEN /\ WATSONS_BEARER_TOKEN' = authorization_token
          /\ task_state' = [task_state EXCEPT !["get_and_update_token"] = "success"]
     ELSE /\ task_state' = [task_state EXCEPT !["get_and_update_token"] = "failed"]
          /\ UNCHANGED WATSONS_BEARER_TOKEN
  /\ UNCHANGED << idleVars, tokenVars, scraperVars >>

\* Lines 108-117: a task whose upstream tasks all succeeded is run.
TaskStart(t) ==
  /\ phase = "dag"
  /\ t # "get_and_update_token"
  /\ task_state[t] = "none"
  /\ UpstreamSucceeded(t)
  /\ task_state' = [task_state EXCEPT ![t] = "running"]
  /\ UNCHANGED << idleVars, tokenVars, WATSONS_BEARER_TOKEN, scraperVars >>

\* Lines 34-85: the callable of the task returns, or raises.
TaskEnd(t, ok) ==
  /\ phase = "dag"
  /\ t # "get_and_update_token"
  /\ task_state[t] = "running"
  /\ task_state' = [task_state EXCEPT ![t] = IF ok THEN "success" ELSE "failed"]
  /\ UNCHANGED << idleVars, tokenVars, WATSONS_BEARER_TOKEN, scraperVars >>

\* Lines 114-117: a task below a failed task is never run.
UpstreamFailed(t) ==
  /\ phase = "dag"
  /\ task_state[t] = "none"
  /\ \E u \in Upstream(t) : task_state[u] \in {"failed", "upstream_failed"}
  /\ task_state' = [task_state EXCEPT ![t] = "upstream_failed"]
  /\ UNCHANGED << idleVars, tokenVars, WATSONS_BEARER_TOKEN, scraperVars >>

DNext ==
  \/ TokenTaskStart
  \/ \E ok \in BOOLEAN : ServerStart(ok)
  \/ \E ok \in BOOLEAN : MkDtemp(ok)
  \/ \E outcome \in {"driver", "raise", "interrupt"} : AttemptBegin(outcome)
  \/ \E outcome \in {"header", "none", "raise", "interrupt"} : \E value \in TokenValues :
       Capture(outcome, value)
  \/ AttemptFinally
  \/ LoopNext
  \/ Return
  \/ OuterFinally
  \/ TokenTaskEnd
  \/ \E t \in Tasks : TaskStart(t)
  \/ \E t \in Tasks : \E ok \in BOOLEAN : TaskEnd(t, ok)
  \/ \E t \in Tasks : UpstreamFailed(t)

DSpec == DInit /\ [][DNext]_vars

\* ------- the scraper tasks (src/dags/web_scraping_dag.py, lines 34-67)
\* The pages a search may report.
MaxPages == 3

\* Line 40: page=0 for Watsons; line 58: shops_page=1 for Line Shopping.
FirstPage(site) == IF site = "watsons" THEN 0 ELSE 1

\* Line 45: range(1, total_pages); line 63: range(2, total_pages + 1).
RemainingPages(site, total) ==
  IF site = "watsons" THEN 1..(total - 1) ELSE 2..total

SInit ==
  /\ df_base = <<>>
  /\ df_query = <<>>
  /\ cache_file = Absent
  /\ embedding_cache = EmptyDict
  /\ phase = "scrape"
  /\ main_pc = "lookup"
  /\ base_embeddings = <<>>
  /\ base_embeddings_np = Unbuilt
  /\ pc = <<>>
  /\ attempt = <<>>
  /\ locals = <<>>
  /\ ret = <<>>
  /\ results_list = <<>>
  /\ hist = <<>>
  /\ filtered_df_results = <<>>
  /\ v_in = NoVerifierInput
  /\ v_out = NoVerifierOutput
  /\ texts = <<>>
  /\ batch_size = 1
  /\ texts_to_embed = <<>>
  /\ batch_start = 0
  /\ cache_updated = FALSE
  /\ provider_pc = "idle"
  /\ batch_log = <<>>
  /\ TokenIdle
  /\ DagIdle
  /\ scraper \in {"watsons", "line_shopping"}
  /\ scraper_pc = "query"
  /\ query_no = 1
  /\ total_pages = 0
  /\ page_num = 0
  /\ requested = <<>>
  /\ first_failed = {}

scrapeIdle == << idleVars, tokenVars, dagVars, scraper >>

\* Lines 38-40 and 56-58: the first page of the next query is fetched.
\* "data" is a response with its page count, "nothing" what the fetch
\* function returns for an error it catches (None) and a response without
\* the page count, "raise" an error it lets through, as one of the object
\* store is.
FetchFirst(outcome, total) ==
  /\ phase = "scrape"
  /\ scraper_pc = "query"
  /\ query_no <= NumQueries
  /\ requested' = Append(requested, << query_no, FirstPage(scraper) >>)
  /\ CASE outcome = "data" ->
            /\ total_pages' = total
            /\ page_num' = FirstPage(scraper)
            /\ scraper_pc' = "pages"
            /\ UNCHANGED << first_failed, query_no >>
       [] outcome = "nothing" ->
            /\ first_failed' = first_failed \cup {query_no}
            /\ query_no' = query_no + 1
            /\ UNCHANGED << total_pages, page_num, scraper_pc >>
       [] outcome = "raise" ->
            /\ first_failed' = first_failed \cup {query_no}
            /\ scraper_pc' = "raised"
            /\ UNCHANGED << total_pages, page_num, query_no >>
  /\ UNCHANGED scrapeIdle

\* Lines 44-47 and 62-65: the next remaining page is fetched; what it
\* returns is not looked at.
FetchNext(raises) ==
  /\ phase = "scrape"
  /\ scraper_pc = "pages"
  /\ page_num + 1 \in RemainingPages(scraper, total_pages)
  /\ requested' = Append(requested, << query_no, page_num + 1 >>)
  /\ page_num' = page_num + 1
  /\ scraper_pc' = (IF raises THEN "raised" ELSE "pages")
  /\ UNCHANGED << scrapeIdle, query_no, total_pages, first_failed >>

\* Lines 38 and 56: no page is left, the loop goes to the next query.
NextQuery ==
  /\ phase = "scrape"
  /\ scraper_pc = "pages"
  /\ page_num + 1 \notin RemainingPages(scraper, total_pages)
  /\ query_no' = query_no + 1
  /\ scraper_pc' = "query"
  /\ UNCHANGED << scrapeIdle, total_pages, page_num, requested, first_failed >>

\* Lines 38 and 56: the list of queries is used up, the task returns.
ScraperReturn ==
  /\ phase = "scrape"
  /\ scraper_pc = "query"
  /\ query_no > NumQueries
  /\ scraper_pc' = "returned"
  /\ UNCHANGED << scrapeIdle, query_no, total_pages, page_num, requested, first_failed >>

SNext ==
  \/ \E outcome \in {"data", "nothing", "raise"} : \E total \in 0..MaxPages :
       FetchFirst(outcome, total)
  \/ \E raises \in BOOLEAN : FetchNext(raises)
  \/ NextQuery
  \/ ScraperReturn

SSpec == SInit /\ [][SNext]_vars

\* ================================================================== claims
Started(r) == pc[r] # "pending"
Entries(r) == { i \in DOMAIN results_list : results_list[i].row = r }
NonBlankRows == { r \in Rows : ~Falsy(QueryName(r)) }
IsSentinelRecord(x, r) ==
  /\ x.matched_name = MatchingFailed
  /\ x.price_from_watson = 0
  /\ x.similarity = ZeroSim
  /\ x.verified_match = FALSE
  /\ x.query_name = QueryName(r)
  /\ x.price_from_line = df_query[r].sale_price

\* C1: once a row has been collected, results_list holds exactly one record
\* of it when its name is non-blank and none when it is blank (a row that
\* ended Failed included); when the pool is drained the length of
\* results_list is the number of non-blank query rows.
C1_OneResultPerNonBlankRow ==
  /\ \A r \in Rows :
       /\ Cardinality(Entries(r)) =
            (IF pc[r] = "collected" /\ ~Falsy(QueryName(r)) THEN 1 ELSE 0)
       /\ \A i \in Entries(r) : results_list[i].result = ret[r]
  /\ phase = "done" => Len(results_list) = Cardinality(NonBlankRows)

C1_Witness ==
  /\ phase = "done"
  /\ \E r \in Rows : Falsy(QueryName(r))
  /\ \E i \in DOMAIN results_list : results_list[i].result.branch = "Failed"

\* C2 (as stated): the verifier returns a name only when the raw response
\* itself is, character for character, one of the candidates.
C2_RawResponseIsCandidate ==
  (v_out.called /\ v_out.is_match) =>
     /\ v_out.name = v_in.raw
     /\ InList(v_in.raw, v_in.product_list_to_compare)

\* x is t without its leading and trailing whitespace.
Trimmed(t, x) ==
  /\ x = <<>> \/ (x[1] \notin Whitespace /\ x[Len(x)] \notin Whitespace)
  /\ \E i \in 1..(Len(t) + 1), j \in 0..Len(t) :
       /\ SubSeq(t, i, j) = x
       /\ \A k \in 1..Len(t) : (k < i \/ k > j) => t[k] \in Whitespace

\* C2 (amended): the verifier returns a name only when the raw response
\* with its leading and trailing whitespace removed is, character for
\* character, one of the candidates, and that candidate is the name returned;
\* a response that differs in case or in inner whitespace gives no match.
C2_TrimmedResponseIsCandidate ==
  (v_out.called /\ v_out.is_match) =>
     /\ InList(v_out.name, v_in.product_list_to_compare)
     /\ Trimmed(v_in.raw, v_out.name)

C2_Witness == v_out.called /\ v_out.is_match /\ v_in.raw # v_out.name

\* C3: a record of results_list with verified_match = TRUE carries the name
\* the verifier returned for its row, which is one of the candidates
\* retrieved for that row; a record built from the top candidate because the
\* verifier returned nothing has verified_match = FALSE.
C3_VerifiedMeansVerifierChose ==
  \A i \in DOMAIN results_list :
    LET x == results_list[i].result
        l == locals[results_list[i].row]
    IN  /\ x.verified_match =>
             /\ l.is_match
             /\ x.matched_name = l.verified_product_name
             /\ \E k \in DOMAIN l.match_indices :
                  /\ k <= top_n
                  /\ df_base[l.match_indices[k]].product_name = x.matched_name
        /\ ~l.is_match => ~x.verified_match

C3_Witness ==
  \E i \in DOMAIN results_list :
    LET x == results_list[i].result
        l == locals[results_list[i].row]
    IN  /\ x.verified_match
        /\ x.matched_name # df_base[l.match_indices[1]].product_name

\* C4: a row makes at most 3 attempts, attempt number n is running only
\* after n attempts raised, and a row whose third attempt raised has returned
\* the Matching Failed record with its own name and price.
C4_ThreeAttemptsThenFailed ==
  \A r \in Rows :
    /\ attempt[r] <= MaxAttempts - 1
    /\ hist[r].raises <= MaxAttempts
    /\ hist[r].raises < MaxAttempts => attempt[r] = hist[r].raises
    /\ hist[r].sleeps = attempt[r]
    /\ hist[r].raises = MaxAttempts <=> ret[r].branch = "Failed"
    /\ hist[r].raises = MaxAttempts =>
         /\ pc[r] \in {"returned", "collected"}
         /\ IsSentinelRecord(ret[r], r)

C4_Witness ==
  \E r \in Rows : pc[r] = "collected" /\ hist[r].raises = MaxAttempts /\ attempt[r] = 2

\* C5 (as stated): an exception of the chat-completion call makes its
\* attempt a failed one, and a row all of whose verifier calls raised has
\* been retried until it resolved to Failed.
C5_VerifierErrorIsRetried ==
  \A r \in Rows :
    /\ hist[r].verifier_errors <= hist[r].raises
    /\ ( /\ pc[r] \in {"returned", "collected"}
         /\ hist[r].verifier_calls > 0
         /\ hist[r].verifier_errors = hist[r].verifier_calls )
         => ret[r].branch = "Failed"

\* C6: once rows run nothing aborts the run, no exception leaves a row, a
\* row all of whose attempts raised comes out as the Matching Failed record,
\* and when the pool is drained every non-blank row is in results_list next
\* to the rows that failed.
C6_RowErrorsContained ==
  /\ (\E r \in Rows : Started(r)) => phase \in {"pool", "done"}
  /\ \A r \in Rows :
       /\ ret[r].branch # "Escaped"
       /\ (hist[r].raises > 0 /\ pc[r] = "collected") => Entries(r) # {}
       /\ (hist[r].raises = MaxAttempts /\ pc[r] = "collected") =>
            \E i \in Entries(r) : IsSentinelRecord(results_list[i].result, r)
  /\ phase = "done" => \A r \in NonBlankRows : Entries(r) # {}

C6_Witness ==
  /\ phase = "done"
  /\ \E r, q \in Rows :
       /\ hist[r].raises = MaxAttempts
       /\ \E i \in Entries(r) : results_list[i].result.branch = "Failed"
       /\ hist[q].raises = 0
       /\ \E i \in Entries(q) : results_list[i].result.branch # "Failed"

HasQueryEmbedding(r) ==
  Started(r) /\ ~Falsy(QueryName(r)) /\ QueryName(r) \in DOMAIN embedding_cache

\* C7 (as stated): a row whose query embedding is the empty vector never
\* has the verifier called and returns the Matching Failed record with
\* similarity 0.0.
C7_SentinelQueryFailsUnverified ==
  \A r \in Rows :
    (HasQueryEmbedding(r) /\ embedding_cache[QueryName(r)] = <<>>) =>
       /\ hist[r].verifier_calls = 0
       /\ pc[r] \in {"returned", "collected"} =>
            /\ ret[r].matched_name = MatchingFailed
            /\ ret[r].similarity = ZeroSim

DataQualityFailure(r) ==
  /\ HasQueryEmbedding(r)
  /\ hist[r].remote_errors = 0
  /\ \/ NormSq(embedding_cache[QueryName(r)]) = 0
     \/ base_embeddings_np.kind = "empty"

\* C8 (as stated): a row whose query embedding is empty or of zero norm, or
\* whose base table gives no candidate, and that met no remote failure, is
\* still in its first attempt, has not slept, and returns Failed.
C8_DataQualityFailsAtOnce ==
  \A r \in Rows :
    DataQualityFailure(r) =>
       /\ attempt[r] = 0
       /\ hist[r].sleeps = 0
       /\ pc[r] \in {"returned", "collected"} => ret[r].branch = "Failed"

\* C9: a row has left the queue only when the main thread has embedded
\* every base name, one after the other, and built base_embeddings_np from
\* all of them.
C9_BaseIndexBeforeRows ==
  (\E r \in Rows : Started(r)) =>
     /\ phase \in {"pool", "done"}
     /\ main_pc = "lookup"
     /\ Len(base_embeddings) = Len(df_base)
     /\ \A i \in DOMAIN df_base : base_embeddings[i] = embedding_cache[base_names[i]]
     /\ base_embeddings_np = np_array(base_embeddings)

C9_Witness ==
  /\ \E r \in Rows : pc[r] = "verify_call"
  /\ Len(df_base) = 2
  /\ cache_file = Pickled(embedding_cache)

Writing(r) == pc[r] \in {"file_open", "file_dump", "file_dump_late"}

\* C10 (as stated): once the pool runs no worker writes the dict or the
\* file, so no two workers are writing at the same time.
C10_NoCacheWriteInPool ==
  /\ \A r \in Rows : ~Writing(r)
  /\ \A r, q \in Rows : (r # q) => ~(pc[r] = "file_dump" /\ pc[q] = "file_dump")

\* C11 (as stated): no text is requested from the embedding model twice
\* within a run; in particular two workers whose rows carry the same name
\* are never both inside client.embeddings.create for it.
C11_EachTextRequestedOnce ==
  \A r, q \in Rows :
    (r # q /\ QueryName(r) = QueryName(q)) =>
       ~(pc[r] = "embed_call" /\ pc[q] = "embed_call")

\* The batch of the i-th request, counted from the list of line 38.
BatchOfRequest(i) ==
  SubSeq(texts_to_embed, (i - 1) * batch_size + 1, Min(i * batch_size, Len(texts_to_embed)))

\* C12: the call never raises; after a batch whose request raised every text
\* of it is stored with [], the texts of a batch that was answered in full
\* hold their vectors, the batches requested are the consecutive slices of
\* texts_to_embed, and when the call has returned every slice was requested.
C12_FailedBatchMarkedAndSkipped ==
  /\ provider_pc # "raised"
  /\ \A i \in DOMAIN batch_log :
       LET e == batch_log[i]
       IN  /\ e.batch = BatchOfRequest(i)
           /\ e.raised =>
                \A j \in DOMAIN e.batch :
                  /\ e.batch[j] \in DOMAIN embedding_cache
                  /\ embedding_cache[e.batch[j]] = <<>>
           /\ (~e.raised /\ e.vectors = Len(e.batch)) =>
                \A j \in DOMAIN e.batch :
                  /\ e.batch[j] \in DOMAIN embedding_cache
                  /\ embedding_cache[e.batch[j]] = Embedding(e.batch[j])
  /\ provider_pc = "returned" => Len(batch_log) * batch_size >= Len(texts_to_embed)

C12_Witness ==
  /\ provider_pc = "returned"
  /\ \E i, j \in DOMAIN batch_log :
       /\ i < j
       /\ batch_log[i].raised
       /\ Len(batch_log[i].batch) >= 2
       /\ ~batch_log[j].raised
       /\ batch_log[j].vectors = Len(batch_log[j].batch)

\* C13 (as stated): a run whose cache file is missing or corrupt gets past
\* the load with an empty cache and goes on to the base table.
C13_LoadNeverFatal ==
  ( /\ phase # "load"
    /\ cache_file.kind \in {"absent", "corrupt"}
    /\ main_pc = "lookup"
    /\ base_embeddings = <<>>
    /\ \A r \in Rows : pc[r] = "pending" )
  => /\ phase \in {"base", "pool"}
     /\ embedding_cache = EmptyDict

\* C14 (as stated): when the run has ended, every entry of the in-memory
\* cache is in the file the next run will load.
C14_CachedEmbeddingSurvivesRun ==
  phase = "done" =>
    \A t \in DOMAIN embedding_cache :
      /\ cache_file.kind = "ok"
      /\ t \in DOMAIN cache_file.data
      /\ cache_file.data[t] = embedding_cache[t]

\* The entries of a finished batch that are in the in-memory cache.
Persisted(t) ==
  /\ cache_file.kind = "ok"
  /\ t \in DOMAIN cache_file.data
  /\ cache_file.data[t] = embedding_cache[t]

\* C15 (as stated): when the remote call for a batch is issued, the file
\* already holds the entries of every batch before it.
C15_PersistedBeforeNextBatch ==
  provider_pc = "embed_call" =>
    \A i \in DOMAIN batch_log :
      \A j \in DOMAIN batch_log[i].batch :
        batch_log[i].batch[j] \in DOMAIN embedding_cache => Persisted(batch_log[i].batch[j])

\* The cache without the texts this call embeds: what the call started with.
CacheBeforeCall ==
  [t \in { u \in DOMAIN embedding_cache : ~InList(u, texts_to_embed) } |-> embedding_cache[t]]

\* C15 (amended): the batched call writes the file once, after its last
\* batch, when a batch was requested: while batches are being requested the
\* file is what it was when the call began and holds no entry of this call,
\* and once the call has returned after a batch the file is the whole cache.
C15_PersistedOnceAfterLastBatch ==
  /\ provider_pc \in {"batch", "embed_call"} =>
       /\ cache_file.kind \in {"absent", "ok"}
       /\ cache_file.data = CacheBeforeCall
  /\ (provider_pc = "returned" /\ batch_log # <<>>) => cache_file = Pickled(embedding_cache)
  /\ (provider_pc = "returned" /\ batch_log = <<>>) =>
       /\ cache_file.kind \in {"absent", "ok"}
       /\ cache_file.data = embedding_cache

C15_Witness ==
  /\ provider_pc = "embed_call"
  /\ Len(batch_log) >= 1
  /\ batch_log[1].vectors >= 1
  /\ ~Persisted(batch_log[1].batch[1])

\* C16 (as stated): from the load on, whatever the workers do, the file is
\* absent or the complete pickle of a dict; it is never truncated,
\* half-written or the mixed bytes of two dumps.
C16_BlobAbsentOrComplete ==
  phase \in {"base", "pool", "done"} => cache_file.kind \in {"absent", "ok"}

\* Every row has left embedding_from_string for good.
AllWritesCompleted ==
  /\ phase = "pool"
  /\ \A r \in Rows : pc[r] \in {"returned", "collected"}

\* C17 (as stated): when every row has returned, what pickle.load would
\* read from the file is the in-memory dict, key for key.
C17_ReloadEqualsMemory ==
  AllWritesCompleted =>
    /\ cache_file.kind \in {"absent", "ok"}
    /\ cache_file.data = embedding_cache

\* similarity >= t/100 as a comparison of numbers, which nan does not pass.
AtOrAbove(x, t) ==
  /\ ~x.nan
  /\ x.num >= 0
  /\ x.num * 100 * 100 >= t * t * x.den

\* C18 (as stated): every row of filtered_df_results is a Verified row with
\* verified_match = True and a similarity that is a number >= 0.8, and every
\* row of results_list with both is in filtered_df_results.
C18_ReportIsVerifiedAboveThreshold ==
  phase = "done" =>
    /\ \A i \in DOMAIN filtered_df_results :
         LET x == filtered_df_results[i].result
         IN  /\ x.verified_match = TRUE
             /\ AtOrAbove(x.similarity, similarity_threshold)
             /\ x.branch = "Verified"
    /\ \A i \in DOMAIN results_list :
         LET x == results_list[i].result
         IN  (x.verified_match = TRUE /\ AtOrAbove(x.similarity, similarity_threshold)) =>
               \E j \in DOMAIN filtered_df_results :
                 /\ filtered_df_results[j].row = results_list[i].row
                 /\ filtered_df_results[j].result = x

\* No base vector the search could score: none at all, or only empty or
\* zero-norm ones.
NoValidBaseVector ==
  \A i \in DOMAIN base_embeddings : NormSq(base_embeddings[i]) = 0

\* C19 (as stated): when every base name is embedded and the base table is
\* empty or none of its vectors is valid, the run does not go on to the
\* pool: no row is started and no report is produced.
C19_EmptyIndexAborts ==
  ( /\ phase # "load"
    /\ Len(base_embeddings) = Len(df_base)
    /\ NoValidBaseVector )
  => /\ phase \in {"base", "aborted"}
     /\ \A r \in Rows : ~Started(r)

\* C20: a Verified record carries the sale price of a base row that is among
\* the retrieved candidates and whose name is the verifier's answer, and
\* its similarity is the cosine of that same base row with the query
\* embedding, whether or not that row is the top candidate.
C20_VerifiedPriceAndScoreOfChosen ==
  \A r \in Rows :
    ret[r].verified_match =>
      \E k \in DOMAIN locals[r].match_indices :
        LET j == locals[r].match_indices[k]
        IN  /\ df_base[j].product_name = locals[r].verified_product_name
            /\ ret[r].matched_name = df_base[j].product_name
            /\ ret[r].price_from_watson = df_base[j].sale_price
            /\ ret[r].similarity =
                 CosineSimilarity(base_embeddings_np.rows[j], embedding_cache[QueryName(r)])

C20_Witness ==
  \E r \in Rows :
    /\ ret[r].verified_match
    /\ ret[r].matched_name # df_base[locals[r].match_indices[1]].product_name
    /\ ret[r].similarity # locals[r].similarity_scores[1]
    /\ ret[r].price_from_watson # df_base[locals[r].match_indices[1]].sale_price

\* The similarity of every base row to the query embedding of row r.
SimilaritiesOf(r) ==
  [i \in DOMAIN base_embeddings_np.rows |->
     CosineSimilarity(base_embeddings_np.rows[i], embedding_cache[QueryName(r)])]

Returned(r) == pc[r] \in {"returned", "collected"}

\* C21: a row that has returned, whose candidate list was not empty and to
\* which the verifier gave no match, returned the UnverifiedBestGuess record:
\* verified_match = False, and name, price and similarity of the first
\* candidate, a base row that no other base row exceeds in similarity.
C21_NoMatchGivesTopCandidate ==
  \A r \in Rows :
    (Returned(r) /\ locals[r].matched_product_names # <<>> /\ ~locals[r].is_match) =>
      LET j == locals[r].match_indices[1]
      IN  /\ ret[r].branch = "UnverifiedBestGuess"
          /\ ret[r].verified_match = FALSE
          /\ ret[r].query_name = QueryName(r)
          /\ ret[r].price_from_line = df_query[r].sale_price
          /\ ret[r].matched_name = df_base[j].product_name
          /\ ret[r].price_from_watson = df_base[j].sale_price
          /\ ret[r].similarity = SimilaritiesOf(r)[j]
          /\ \A i \in DOMAIN df_base : ~SimLess(SimilaritiesOf(r)[j], SimilaritiesOf(r)[i])

C21_Witness ==
  \E r \in Rows :
    /\ Returned(r)
    /\ ret[r].branch = "UnverifiedBestGuess"
    /\ Len(locals[r].matched_product_names) = top_n
    /\ ~ret[r].similarity.nan
    /\ SimLess(locals[r].similarity_scores[2], locals[r].similarity_scores[1])

\* The requests made so far that carried the text t.
RequestsWith(t) ==
  { <<i, j>> \in (DOMAIN batch_log) \X (1..MaxTexts) :
      j <= Len(batch_log[i].batch) /\ batch_log[i].batch[j] = t }

\* A text of the argument that is not blank and was not in the cache when
\* the call began.
NeedsEmbedding(t) ==
  /\ InList(t, texts)
  /\ strip(t) # <<>>
  /\ t \notin DOMAIN CacheBeforeCall

\* C22: every request carries between 1 and batch_size texts, each of them a
\* text that needs embedding, no text is carried by two requests (or twice
\* by one), and when the call has returned every text that needs embedding
\* was carried by exactly one request.
C22_BatchesPartitionTexts ==
  /\ \A i \in DOMAIN batch_log :
       /\ Len(batch_log[i].batch) \in 1..batch_size
       /\ \A j \in DOMAIN batch_log[i].batch : NeedsEmbedding(batch_log[i].batch[j])
  /\ \A t \in ProviderTexts : Cardinality(RequestsWith(t)) <= 1
  /\ provider_pc = "returned" =>
       \A t \in ProviderTexts : NeedsEmbedding(t) => Cardinality(RequestsWith(t)) = 1

C22_Witness ==
  /\ provider_pc = "returned"
  /\ batch_size = 2
  /\ Len(batch_log) = 2
  /\ Len(batch_log[1].batch) = batch_size
  /\ Len(batch_log[2].batch) = 1

Blank(t) == strip(t) = <<>>

\* C23 (as stated): no text that is empty or made of whitespace only is
\* inside client.embeddings.create, neither a base name on the main thread
\* nor the name of a query row in a worker.
C23_BlankNeverSent ==
  /\ (InBase /\ main_pc = "embed_call") => ~Blank(BaseName)
  /\ \A r \in Rows : pc[r] = "embed_call" => ~Blank(QueryName(r))

\* A row that has left the queue is never handed out again, and a row that
\* a worker runs stays with it until process_product_row has returned.
RowKeepsItsWorker ==
  \A r \in Rows :
    /\ pc[r] # "pending" => pc'[r] # "pending"
    /\ Running(r) => (Running(r)' \/ pc'[r] = "returned")
    /\ Returned(r) => Returned(r)'

\* C24: at every moment at most max_workers (5) rows are inside
\* process_product_row, and a row, once a worker has taken it, is run by
\* that worker without a break until it has returned, and never again.
C24_AtMostFiveRowsAtOnce ==
  /\ [](Cardinality({ r \in Rows : Running(r) }) <= max_workers)
  /\ [][RowKeepsItsWorker]_vars

C24_Witness ==
  /\ Cardinality({ r \in Rows : Running(r) }) = max_workers
  /\ \E r \in Rows : pc[r] = "pending"
  /\ \E r \in Rows : pc[r] = "verify_call"

TerminalBranches == {"Verified", "UnverifiedBestGuess", "Failed"}

\* C25 (as stated): once the rows are submitted, every one of them comes to
\* be collected with a record that is Verified, UnverifiedBestGuess or
\* Failed.
C25_EveryRowReachesTerminal ==
  (phase = "pool") ~>
     (\A r \in Rows : pc[r] = "collected" /\ ret[r].branch \in TerminalBranches)

\* The pool is drained and the main thread is past line 310.
Drained ==
  /\ phase \in {"done", "aborted"}
  /\ \A r \in Rows :
       /\ pc[r] = "collected"
       /\ ret[r].branch \in
            (IF Falsy(QueryName(r)) THEN {"None"} ELSE TerminalBranches)
  /\ Len(results_list) = Cardinality(NonBlankRows)
  /\ results_list # <<>> => phase = "done"

\* C25 (amended): once the rows are submitted, every row whose name is not
\* empty comes to return exactly one record, Verified, UnverifiedBestGuess
\* or Failed, which it keeps; a row whose name is empty returns None; every
\* row is collected and the results table is built from the records.
C25_NonBlankRowsReachTerminal ==
  /\ (phase = "pool") ~> Drained
  /\ [][\A r \in Rows : Returned(r) => (Returned(r)' /\ ret'[r] = ret[r])]_vars

C25_Witness ==
  /\ phase = "done"
  /\ \E r \in Rows : Falsy(QueryName(r)) /\ pc[r] = "collected" /\ ret[r].branch = "None"
  /\ \E r \in Rows : pc[r] = "collected" /\ ret[r].branch \in TerminalBranches

\* x > y as numbers: false when either is nan.
Greater(x, y) == ~x.nan /\ ~y.nan /\ x.num * y.den > y.num * x.den

\* The search of row r has returned.
Searched(r) ==
  /\ pc[r] \in {"verify_call", "returned", "collected"}
  /\ ret[r].branch \notin {"Failed", "None"}

\* C26: find_best_match_in_context returns min(top_n, number of base rows)
\* positions of the base table, all different, each with its own cosine
\* similarity to the query; no candidate is strictly greater than one before
\* it, and no base row left out is strictly greater than a candidate.
C26_TopKIsSortedPrefix ==
  \A r \in Rows :
    Searched(r) =>
      LET m == locals[r].match_indices
          sc == locals[r].similarity_scores
          sim == SimilaritiesOf(r)
      IN  /\ Len(m) = Min(top_n, Len(df_base))
          /\ Len(sc) = Len(m)
          /\ \A i \in DOMAIN m : m[i] \in DOMAIN df_base /\ sc[i] = sim[m[i]]
          /\ \A i, j \in DOMAIN m : i # j => m[i] # m[j]
          /\ \A i, j \in DOMAIN m : i < j => ~Greater(sc[j], sc[i])
          /\ \A o \in DOMAIN df_base :
               (\A i \in DOMAIN m : m[i] # o) => \A i \in DOMAIN m : ~Greater(sim[o], sc[i])

C26_Witness ==
  \E r \in Rows :
    /\ Searched(r)
    /\ Len(df_base) > top_n
    /\ Len(locals[r].match_indices) = top_n
    /\ \A i \in 1..(top_n - 1) :
         Greater(locals[r].similarity_scores[i], locals[r].similarity_scores[i + 1])
    /\ \E o \in DOMAIN df_base :
         Greater(locals[r].similarity_scores[top_n], SimilaritiesOf(r)[o])

\* Two similarities that are the same number.
SameScore(x, y) == ~x.nan /\ ~y.nan /\ x = y

\* C27 (as stated): of two base rows with the same similarity to the query,
\* the one earlier in the base table comes first among the candidates, and
\* when only one of them is among the candidates it is the earlier one.
C27_TiesInTableOrder ==
  \A r \in Rows :
    Searched(r) =>
      LET m == locals[r].match_indices
          sc == locals[r].similarity_scores
          sim == SimilaritiesOf(r)
      IN  /\ \A i, j \in DOMAIN m : (i < j /\ SameScore(sc[i], sc[j])) => m[i] < m[j]
          /\ \A o \in DOMAIN df_base :
               (\A i \in DOMAIN m : m[i] # o) =>
                  \A i \in DOMAIN m : SameScore(sim[o], sc[i]) => m[i] < o

\* C28 (as stated): the matrix the rows are searched in holds no vector that
\* is empty or of zero norm, has as many rows as the table the candidates
\* are read from, and its row i is the embedding of the name of row i of
\* that table.
C28_IndexExcludesInvalidVectors ==
  base_embeddings_np.kind # "unbuilt" =>
    /\ \A i \in DOMAIN base_embeddings_np.rows :
         /\ base_embeddings_np.rows[i] # <<>>
         /\ NormSq(base_embeddings_np.rows[i]) > 0
    /\ Len(base_embeddings_np.rows) = Len(df_base)
    /\ \A i \in DOMAIN base_embeddings_np.rows :
         base_embeddings_np.rows[i] = embedding_cache[df_base[i].product_name]

\* C29 (as stated): for a row whose query embedding is empty or of zero
\* norm the search proposes no candidate and raises nothing, and the
\* verifier is not called.
C29_ZeroNormQueryGivesNoCandidates ==
  \A r \in Rows :
    (HasQueryEmbedding(r) /\ NormSq(embedding_cache[QueryName(r)]) = 0) =>
       /\ locals[r].match_indices = <<>>
       /\ hist[r].verifier_calls = 0
       /\ hist[r].raises = hist[r].remote_errors

\* The step is a lookup, by the main thread or by the worker of row r, of a
\* text that is in the cache.
BaseLookupOfCachedText ==
  /\ InBase
  /\ main_pc = "lookup"
  /\ BaseName \in DOMAIN embedding_cache
  /\ base_embeddings' # base_embeddings \/ main_pc' # main_pc

LookupOfCachedText(r) ==
  /\ pc[r] = "lookup"
  /\ QueryName(r) \in DOMAIN embedding_cache
  /\ pc'[r] # pc[r] \/ hist'[r] # hist[r]

\* C30: two lookups of the same base name return the same vector, and a
\* lookup of a text that is in the cache returns the cached vector without
\* a call of the provider and leaves the dict and the file as they are.
C30_SecondLookupIsPure ==
  /\ [](\A i, j \in DOMAIN base_embeddings :
          base_names[i] = base_names[j] => base_embeddings[i] = base_embeddings[j])
  /\ [][ /\ BaseLookupOfCachedText =>
              /\ main_pc' = "lookup"
              /\ base_embeddings' = Append(base_embeddings, embedding_cache[BaseName])
              /\ embedding_cache' = embedding_cache
              /\ cache_file' = cache_file
         /\ \A r \in Rows :
              LookupOfCachedText(r) =>
                /\ pc'[r] # "embed_call"
                /\ embedding_cache' = embedding_cache
                /\ cache_file' = cache_file ]_vars

C30_Witness ==
  /\ Len(base_embeddings) = 2
  /\ base_names[1] = base_names[2]
  /\ base_embeddings[1] # <<>>
  /\ cache_file = Pickled(embedding_cache)
  /\ \E r \in Rows : attempt[r] > 0 /\ pc[r] = "verify_call"

\* C31: from the moment the verifier call of row HungRow is made and never
\* answered, the row stays inside that call, it has no result, the main
\* thread stays in the executor's loop and the run never ends.
C31_HungCallBlocksForever ==
  [](pc[HungRow] = "verify_call" =>
       [](/\ pc[HungRow] = "verify_call"
          /\ ret[HungRow].branch = "running"
          /\ phase = "pool"))

C31_Witness ==
  /\ pc[HungRow] = "verify_call"
  /\ \A r \in Rows : r # HungRow => pc[r] = "collected"
  /\ ~ENABLED HNext

\* 0.5 <= d <= 1.5 as numbers.
RatioInRange(d) ==
  /\ d.den > 0
  /\ d.num * 10 >= diff_lower * d.den
  /\ d.num * 10 <= diff_upper * d.den

\* C32 (as stated): in the reports that filter on the price ratio, every
\* row written has price_from_line / price_from_watson between 0.5 and 1.5.
C32_ReportedRatioInRange ==
  phase \in {"gemini_report", "qwen_report"} =>
    \A i \in DOMAIN filtered_df_results : RatioInRange(filtered_df_results[i].diff)

RequestedTexts == { texts[i] : i \in DOMAIN texts }

\* C33 (as stated): when get_embeddings_with_caching has returned, every
\* requested text that is not blank has an entry in the cache, a vector or
\* the [] mark, also when a call answered with fewer vectors than texts.
C33_EveryRequestedTextHasEntry ==
  provider_pc = "returned" =>
    \A t \in RequestedTexts : ~Blank(t) => CacheHit(embedding_cache, t)

\* The batches that held t, by position in the log.
BatchesWith(t) ==
  { i \in DOMAIN batch_log : \E j \in DOMAIN batch_log[i].batch : batch_log[i].batch[j] = t }

FailedWith(t) == { i \in BatchesWith(t) : batch_log[i].raised }

\* C34: a text of a batch that raised is in the cache with [] from then on,
\* and no later batch, of this call, of a later call or of a later run that
\* loaded the saved file, holds it again.
C34_FailedTextNeverSentAgain ==
  \A t \in RequestedTexts : \A i \in FailedWith(t) :
     /\ \A j \in BatchesWith(t) : j <= i
     /\ CacheHit(embedding_cache, t)
     /\ embedding_cache[t] = <<>>

C34_Witness ==
  /\ provider_pc = "returned"
  /\ texts_to_embed = <<>>
  /\ \E t \in RequestedTexts : FailedWith(t) # {}

\* The attempts that ended with an Authorization header in the HAR.
HeaderAttempts == { i \in DOMAIN har_log : har_log[i].kind = "header" }

\* C35: there are at most three attempts; only the last attempt made has
\* captured an Authorization header; a return gives the value captured by
\* that attempt, and gives None only after three attempts none of which
\* captured a header; an Exception inside an attempt makes it one of those
\* unsuccessful attempts and never makes the function raise.
C35_AtMostThreeAttemptsFirstTokenWins ==
  /\ Len(har_log) <= max_retries
  /\ \A i \in HeaderAttempts : i = Len(har_log)
  /\ (token_pc = "exit" /\ token_exit = "return") =>
       /\ HeaderAttempts # {} =>
            authorization_token = har_log[Len(har_log)].value /\ TokenFound(authorization_token)
       /\ HeaderAttempts = {} =>
            /\ authorization_token = NoToken
            /\ Len(har_log) = max_retries
            /\ \A i \in DOMAIN har_log : har_log[i].kind \in {"none", "raise"}
  /\ (token_pc = "exit" /\ token_exit = "raise") =>
       \/ server = "unstarted"
       \/ user_data_dir_for_cleanup = "None"
       \/ har_log[Len(har_log)].kind = "interrupt"

C35_Witness ==
  /\ token_pc = "exit"
  /\ token_exit = "return"
  /\ Len(har_log) = max_retries
  /\ har_log[1].kind = "raise"
  /\ har_log[2].kind = "none"
  /\ har_log[3].kind = "header"

\* The WebDrivers started so far, each named by the number of its attempt.
StartedDrivers ==
  { d \in DOMAIN har_log : har_log[d].driver }
    \cup (IF token_pc = "capture" THEN {current_driver} ELSE {})

\* C36: when get_watsons_token has left its try block, by a return with or
\* without a token or by an exception, quit() has been called exactly once
\* on every WebDriver started and on no other, the user-data directory made
\* has been removed and the proxy server has been stopped.
C36_CleanupOnEveryExit ==
  (token_pc = "exit" /\ server # "unstarted") =>
     /\ \A d \in 1..max_retries : quits[d] = (IF d \in StartedDrivers THEN 1 ELSE 0)
     /\ user_data_dir_for_cleanup # "exists"
     /\ server = "stopped"

C36_Witness ==
  /\ token_pc = "exit"
  /\ token_exit = "raise"
  /\ Cardinality(StartedDrivers) = max_retries
  /\ user_data_dir_for_cleanup = "removed"

\* The states of a task that was started.
Ran == { "running", "success", "failed" }

\* C37: a scraper is started only when the token task has succeeded, a
\* processing task only when the scraper of its source has succeeded, the
\* report task only when both processing tasks have succeeded; when
\* get_watsons_token gave no token the token task fails, the Variable keeps
\* the value it had before the run and no other task is started.
C37_TasksRunInDependencyOrder ==
  /\ \A t \in {"scrape_watsons_data", "scrape_line_shopping_data"} :
       task_state[t] \in Ran => task_state["get_and_update_token"] = "success"
  /\ task_state["process_pre_landing_watson_data"] \in Ran =>
       task_state["scrape_watsons_data"] = "success"
  /\ task_state["process_pre_landing_line_data"] \in Ran =>
       task_state["scrape_line_shopping_data"] = "success"
  /\ task_state["write_compare_price_report"] \in Ran =>
       /\ task_state["process_pre_landing_watson_data"] = "success"
       /\ task_state["process_pre_landing_line_data"] = "success"
  /\ (token_pc = "exit" /\ ~TokenFound(authorization_token)) =>
       /\ task_state["get_and_update_token"] \in {"running", "failed"}
       /\ WATSONS_BEARER_TOKEN \in OldTokens
       /\ \A t \in Tasks \ {"get_and_update_token"} : task_state[t] \notin Ran
  /\ task_state["get_and_update_token"] = "success" =>
       WATSONS_BEARER_TOKEN = authorization_token /\ TokenFound(authorization_token)

C37_Witness ==
  /\ task_state["write_compare_price_report"] = "success"
  /\ WATSONS_BEARER_TOKEN \in TokenValues

C37_WitnessNoToken ==
  /\ token_pc = "exit"
  /\ token_exit = "return"
  /\ ~TokenFound(authorization_token)
  /\ \A t \in Tasks \ {"get_and_update_token"} : task_state[t] = "upstream_failed"

\* The pages requested for query q, in the order of the requests.
RECURSIVE PagesOf(_, _)
PagesOf(log, q) ==
  IF log = <<>> THEN <<>>
  ELSE (IF Head(log)[1] = q THEN << Head(log)[2] >> ELSE <<>>) \o PagesOf(Tail(log), q)

\* The requests of one query are consecutive pages from the first page on.
InPageOrder(q) ==
  \A i \in DOMAIN PagesOf(requested, q) :
     PagesOf(requested, q)[i] = FirstPage(scraper) + i - 1

\* When the page loop of a query is over, the first page and every
\* remaining page of it were requested.
QueryDone ==
  (scraper_pc = "pages" /\ page_num + 1 \notin RemainingPages(scraper, total_pages)) =>
     Len(PagesOf(requested, query_no)) = (IF total_pages > 1 THEN total_pages ELSE 1)

ScraperEnded == scraper_pc \in {"returned", "raised"}

\* C38 (as stated): the pages of every query are requested once each, in
\* increasing order from the first page on; a query whose first page failed
\* has no other page requested, and once the task has ended every query
\* after it has had its first page requested.
C38_PagesInOrderAndFailuresSkipped ==
  /\ \A q \in 1..NumQueries : InPageOrder(q)
  /\ QueryDone
  /\ \A q \in first_failed : Len(PagesOf(requested, q)) = 1
  /\ ScraperEnded =>
       \A q \in first_failed : \A q2 \in (q + 1)..NumQueries : PagesOf(requested, q2) # <<>>

====
